---------------------------- MODULE Spec2Model ----------------------------
(***************************************************************************)
(* A model of the analytics core of the athlete coaching system:           *)
(*   - scripts/calculate_readiness.py : readiness factors, health gates,     *)
(*     calculate_readiness                                                 *)
(*   - pwx_parser/parser.py           : calculate_metrics, Normalized Power, *)
(*     power zones                                                         *)
(*   - scripts/build_readiness_model.py : CTL / ATL / TSB                    *)
(*   - scripts/build_trainability_model.py, scripts/fetch_peak_powers.py :   *)
(*     the Banister fits and the responder class                           *)
(*   - scripts/generate_weekly_intent.py : the weekly intent                 *)
(*                                                                         *)
(* Numbers.  The Python code computes in floating point.  Here every score, *)
(* percentage and load is a fixed-point integer in thousandths (a score of  *)
(* 60.0 is 60000, 87.5 percent is 87500); weights are whole percents (0.25  *)
(* is 25); sleep hours are hundredths of an hour (7.5 h is 750).  Divisions  *)
(* round toward minus infinity.                                            *)
(*                                                                         *)
(* Optional values.  A dictionary entry is Absent (no such key), Null (the  *)
(* key holds None) or Some(n).                                             *)
(***************************************************************************)
EXTENDS Integers, Sequences, FiniteSets, TLC

VARIABLES
    state,       \* the athlete_state.json fields calculate_readiness reads
    config,      \* the config argument of calculate_readiness (section overrides)
    edits,       \* number of update_state calls made on the state
    result,      \* what the last calculate_readiness call produced
    pc,          \* "edit": state being written; "done": readiness calculated;
                 \* "written": readiness calculated and written back to the state
    previous,    \* what the update_athlete_readiness run before the last one produced
    trackpoints, \* the trackpoints parse_file returned for one workout file
    blocks,      \* number of steady blocks the workout file holds
    ftp,         \* PWXParser.ftp
    metrics,     \* what calculate_metrics returned for the trackpoints
    tss_series,  \* the TSS column of the daily table, one entry per day
    load,        \* the CTL / ATL / TSB columns engineer_features added
    daily,       \* the Load / Performance table handed to a Banister fit
    fit_blocks,  \* number of training blocks the Load / Performance table holds
    fit,         \* what the Banister fit returned
    probe,       \* the arguments of one call of a factor calculation
    scored,      \* what that call returned
    week,        \* what generate_weekly_intent reads from the profile and the state
    intent,      \* the weekly intent it generated
    today,       \* what generate_recommendation reads: state, profile, weekly intent
    recommendation, \* the session recommendation it generated
    athletes,    \* the directories under ATHLETES_DIR, each with its files' contents
    call,        \* the last profile_manager call: its arguments and what it returned
    monitored,   \* the state fields the alert checks read
    alerts,      \* the alerts section of the state: active and resolved_recently
    last_run,    \* the last alert-check run: what run_all_checks returned, and
                 \* the alerts section it found
    runs         \* number of alert-check runs made

readiness_vars == <<state, config, edits, result, pc, previous>>
metrics_vars == <<trackpoints, blocks, ftp, metrics>>
load_vars == <<tss_series, load>>
fit_vars == <<daily, fit_blocks, fit>>
probe_vars == <<probe, scored>>
intent_vars == <<week, intent>>
session_vars == <<today, recommendation>>
roster_vars == <<athletes, call>>
alert_vars == <<monitored, alerts, last_run, runs>>
vars == <<state, config, edits, result, pc, previous, trackpoints, blocks, ftp, metrics, tss_series, load,
          daily, fit_blocks, fit, probe, scored, week, intent, today, recommendation,
          athletes, call, monitored, alerts, last_run, runs>>

\* what each component leaves alone: the variables of the other components
other_than_readiness ==
    <<metrics_vars, load_vars, fit_vars, probe_vars, intent_vars,
      session_vars, roster_vars, alert_vars>>
other_than_metrics ==
    <<readiness_vars, load_vars, fit_vars, probe_vars, intent_vars,
      session_vars, roster_vars, alert_vars>>
other_than_load ==
    <<readiness_vars, metrics_vars, fit_vars, probe_vars, intent_vars,
      session_vars, roster_vars, alert_vars>>
other_than_fit ==
    <<readiness_vars, metrics_vars, load_vars, probe_vars, intent_vars,
      session_vars, roster_vars, alert_vars>>
other_than_probe ==
    <<readiness_vars, metrics_vars, load_vars, fit_vars, intent_vars,
      session_vars, roster_vars, alert_vars>>
other_than_intent ==
    <<readiness_vars, metrics_vars, load_vars, fit_vars, probe_vars,
      session_vars, roster_vars, alert_vars>>
other_than_session ==
    <<readiness_vars, metrics_vars, load_vars, fit_vars, probe_vars,
      intent_vars, roster_vars, alert_vars>>
other_than_roster ==
    <<readiness_vars, metrics_vars, load_vars, fit_vars, probe_vars,
      intent_vars, session_vars, alert_vars>>
other_than_alert ==
    <<readiness_vars, metrics_vars, load_vars, fit_vars, probe_vars,
      intent_vars, session_vars, roster_vars>>

(***************************************************************************)
(* Optional values and Python's dict.get / truthiness                      *)
(***************************************************************************)
Absent == [k |-> "absent", v |-> 0]
Null == [k |-> "null", v |-> 0]
Some(n) == [k |-> "val", v |-> n]

\* d.get(key): a missing key reads as None
Get(x) == IF x.k = "absent" THEN Null ELSE x

\* d.get(key, default): only a missing key reads as the default
GetDefault(x, d) == IF x.k = "absent" THEN Some(d) ELSE x

IsNone(x) == x.k # "val"

\* Python truthiness of an optional number: None and 0 are falsy
Truthy(x) == x.k = "val" /\ x.v # 0

\* Python's  a or b
Or(a, b) == IF Truthy(a) THEN a ELSE b

Max(a, b) == IF a >= b THEN a ELSE b
Min(a, b) == IF a <= b THEN a ELSE b

\* (a / b) * 100 in thousandths of a percent, b > 0
Pct(a, b) == (a * 100000) \div b

\* Python round() of a value in thousandths to an integer (ties to even)
Round(m) ==
    LET q == m \div 1000
        r == m % 1000
    IN  IF r > 500 \/ (r = 500 /\ q % 2 = 1) THEN q + 1 ELSE q

(***************************************************************************)
(* Configuration                                                           *)
(***************************************************************************)
DEFAULT_CONFIG ==
    [ weights |-> [hrv |-> 25, sleep |-> 20, recovery |-> 20, tsb |-> 20, rhr |-> 15],
      thresholds |-> [key_session |-> 65, support_session |-> 40],
      health_gates |-> [ sleep_min_hours |-> 700,
                         sleep_debt_max_hours |-> 500,
                         hrv_min_pct_baseline |-> 80,
                         rhr_max_pct_baseline |-> 110,
                         soreness_max |-> 7,
                         stress_max |-> 7 ],
      tsb_optimal |-> [min |-> -5, max |-> 15, worst_low |-> -30, worst_high |-> 30] ]

\* cfg = {**DEFAULT_CONFIG, **(config or {})}: a section given in config
\* replaces the default section as a whole
MergeConfig(c) ==
    [s \in DOMAIN DEFAULT_CONFIG |-> IF s \in DOMAIN c THEN c[s] ELSE DEFAULT_CONFIG[s]]

\* the sleep target calculate_readiness passes to calculate_sleep_contribution
SleepTarget == 800

(***************************************************************************)
(* Factor calculations.  Each returns the contribution (thousandths of a   *)
(* point), the impact tag, and whether the Python call raised.             *)
(***************************************************************************)
Factor(c, i) == [contribution |-> c, impact |-> i, raised |-> FALSE]
Unknown == Factor(0, "unknown")
Raised == [contribution |-> 0, impact |-> "raised", raised |-> TRUE]

\* contribution = (score / 100) * weight * 100
Contribution(score, weight) == (score * weight) \div 100

\* mutant: the 80-90 percent band climbs 1 point per percent instead of 2
calculate_hrv_contribution_shallow(current, baseline, weight) ==
    IF IsNone(current) \/ IsNone(baseline) \/ baseline.v = 0 THEN Unknown
    ELSE LET pct == Pct(current.v, baseline.v)
         IN  IF pct >= 100000 THEN Factor(Contribution(100000, weight), "positive")
             ELSE IF pct >= 90000
                  THEN Factor(Contribution(80000 + (pct - 90000) * 2, weight), "neutral")
             ELSE IF pct >= 80000
                  THEN Factor(Contribution(60000 + (pct - 80000), weight), "slight_negative")
             ELSE IF pct >= 70000
                  THEN Factor(Contribution(40000 + (pct - 70000) * 2, weight), "moderate_negative")
             ELSE Factor(Contribution(Max(0, (pct * 57) \div 100), weight), "severe_negative")

calculate_hrv_contribution(current, baseline, weight) ==
    IF IsNone(current) \/ IsNone(baseline) \/ baseline.v = 0 THEN Unknown
    ELSE LET pct == Pct(current.v, baseline.v)
         IN  IF pct >= 100000 THEN Factor(Contribution(100000, weight), "positive")
             ELSE IF pct >= 90000
                  THEN Factor(Contribution(80000 + (pct - 90000) * 2, weight), "neutral")
             ELSE IF pct >= 80000
                  THEN Factor(Contribution(60000 + (pct - 80000) * 2, weight), "slight_negative")
             ELSE IF pct >= 70000
                  THEN Factor(Contribution(40000 + (pct - 70000) * 2, weight), "moderate_negative")
             ELSE Factor(Contribution(Max(0, (pct * 57) \div 100), weight), "severe_negative")

\* mutant: the band from 75 percent of target starts at 40 instead of 50
calculate_sleep_contribution_low_band(last_night, avg_7d, target, weight) ==
    IF IsNone(last_night) THEN Unknown
    ELSE LET pct == Pct(last_night.v, target)
             debt == IF IsNone(avg_7d) THEN 0 ELSE Max(0, (target - avg_7d.v) * 7)
             base == IF pct >= 100000 THEN 100000
                     ELSE IF pct >= 87500 THEN 80000 + ((pct - 87500) * 16) \div 10
                     ELSE IF pct >= 75000 THEN 40000 + ((pct - 75000) * 24) \div 10
                     ELSE Max(0, (pct * 67) \div 100)
             impact == IF pct >= 100000 THEN "positive"
                       ELSE IF pct >= 87500 THEN "neutral"
                       ELSE IF pct >= 75000 THEN "slight_negative"
                       ELSE "moderate_negative"
             score == IF debt > 500 THEN (base * 9) \div 10 ELSE base
         IN  Factor(Contribution(score, weight), impact)

calculate_sleep_contribution(last_night, avg_7d, target, weight) ==
    IF IsNone(last_night) THEN Unknown
    ELSE LET pct == Pct(last_night.v, target)
             debt == IF IsNone(avg_7d) THEN 0 ELSE Max(0, (target - avg_7d.v) * 7)
             base == IF pct >= 100000 THEN 100000
                     ELSE IF pct >= 87500 THEN 80000 + ((pct - 87500) * 16) \div 10
                     ELSE IF pct >= 75000 THEN 50000 + ((pct - 75000) * 24) \div 10
                     ELSE Max(0, (pct * 67) \div 100)
             impact == IF pct >= 100000 THEN "positive"
                       ELSE IF pct >= 87500 THEN "neutral"
                       ELSE IF pct >= 75000 THEN "slight_negative"
                       ELSE "moderate_negative"
             score == IF debt > 500 THEN (base * 9) \div 10 ELSE base
         IN  Factor(Contribution(score, weight), impact)

\* baseline is not checked: None makes the first comparison raise TypeError,
\* and 0 is compared like any other baseline (the division by baseline is
\* only reached for a reading below every tier, i.e. a negative one)
calculate_recovery_contribution(current, baseline, weight) ==
    IF IsNone(current) THEN Unknown
    ELSE IF IsNone(baseline) THEN Raised
    ELSE LET c == current.v
             b == baseline.v
         IN  IF c >= b
             THEN Factor(Contribution(Min(100000, 70000 + (c - b) * 1000), weight), "positive")
             ELSE IF c * 10 >= b * 8
             THEN Factor(Contribution(50000 + ((c * 10 - b * 8) * 20000) \div (b * 2), weight),
                         "neutral")
             ELSE IF c * 10 >= b * 6
             THEN Factor(Contribution(30000 + ((c * 10 - b * 6) * 20000) \div (b * 2), weight),
                         "slight_negative")
             ELSE IF c * 10 >= b * 4
             THEN Factor(Contribution(10000 + ((c * 10 - b * 4) * 20000) \div (b * 2), weight),
                         "moderate_negative")
             ELSE IF b = 0 THEN Raised
             ELSE Factor(Contribution(Max(0, (c * 10000) \div b), weight), "severe_negative")

\* mutant: above the optimal range the score falls to 0 at worst_high, as it
\* does below the range, instead of to 70
calculate_tsb_contribution_symmetric(tsb, optimal_range, weight) ==
    IF IsNone(tsb) THEN Unknown
    ELSE LET t == tsb.v
             opt_min == optimal_range.min
             opt_max == optimal_range.max
             worst_low == optimal_range.worst_low
             worst_high == optimal_range.worst_high
         IN  IF opt_min <= t /\ t <= opt_max
             THEN Factor(Contribution(100000, weight), "positive")
             ELSE IF t < opt_min
             THEN IF t >= worst_low
                  THEN Factor(Contribution((100000 * (t - worst_low)) \div (opt_min - worst_low),
                                           weight),
                              IF 2 * t >= opt_min + worst_low
                              THEN "slight_negative" ELSE "moderate_negative")
                  ELSE Factor(Contribution(0, weight), "severe_negative")
             ELSE IF t <= worst_high
                  THEN Factor(Contribution(100000 - (100000 * (t - opt_max))
                                                       \div (worst_high - opt_max), weight),
                              "slight_negative")
                  ELSE Factor(Contribution(70000, weight), "neutral")

calculate_tsb_contribution(tsb, optimal_range, weight) ==
    IF IsNone(tsb) THEN Unknown
    ELSE LET t == tsb.v
             opt_min == optimal_range.min
             opt_max == optimal_range.max
             worst_low == optimal_range.worst_low
             worst_high == optimal_range.worst_high
         IN  IF opt_min <= t /\ t <= opt_max
             THEN Factor(Contribution(100000, weight), "positive")
             ELSE IF t < opt_min
             THEN IF t >= worst_low
                  THEN Factor(Contribution((100000 * (t - worst_low)) \div (opt_min - worst_low),
                                           weight),
                              IF 2 * t >= opt_min + worst_low
                              THEN "slight_negative" ELSE "moderate_negative")
                  ELSE Factor(Contribution(0, weight), "severe_negative")
             ELSE IF t <= worst_high
                  THEN Factor(Contribution(100000 - (30000 * (t - opt_max))
                                                       \div (worst_high - opt_max), weight),
                              "slight_negative")
                  ELSE Factor(Contribution(70000, weight), "neutral")

calculate_rhr_contribution(current, baseline, weight) ==
    IF IsNone(current) \/ IsNone(baseline) \/ baseline.v = 0 THEN Unknown
    ELSE LET pct == ((current.v - baseline.v) * 100000) \div baseline.v
         IN  IF pct <= 0 THEN Factor(Contribution(100000, weight), "positive")
             ELSE IF pct <= 5000
                  THEN Factor(Contribution(90000 - pct * 2, weight), "neutral")
             ELSE IF pct <= 10000
                  THEN Factor(Contribution(80000 - (pct - 5000) * 4, weight), "slight_negative")
             ELSE IF pct <= 15000
                  THEN Factor(Contribution(60000 - (pct - 10000) * 4, weight), "moderate_negative")
             ELSE Factor(Contribution(Max(0, 40000 - (pct - 15000) * 2), weight), "severe_negative")

(***************************************************************************)
(* Health gates                                                            *)
(***************************************************************************)
Gate(p, m) == [gate_pass |-> p, marginal |-> m]

\* marginal_gates.append(name) when the gate's marginal branch was taken
Mark(marginal_gates, gate, name) ==
    IF gate.marginal THEN Append(marginal_gates, name) ELSE marginal_gates

sleep_gate(last_night, thresholds) ==
    IF IsNone(last_night) THEN Gate(TRUE, FALSE)
    ELSE IF last_night.v < thresholds.sleep_min_hours THEN Gate(FALSE, FALSE)
    ELSE IF last_night.v < thresholds.sleep_min_hours + 50 THEN Gate(TRUE, TRUE)
    ELSE Gate(TRUE, FALSE)

energy_gate(weight_trend) ==
    IF weight_trend = "declining_fast" THEN Gate(FALSE, FALSE)
    ELSE IF weight_trend = "declining" THEN Gate(TRUE, TRUE)
    ELSE Gate(TRUE, FALSE)

\* hrv_pct = (current / baseline * 100) if current and baseline else 100
gate_pct(current, baseline) ==
    IF Truthy(current) /\ Truthy(baseline) THEN Pct(current.v, baseline.v) ELSE 100000

\* mutant: the HRV floor compared with <= instead of <
autonomic_gate_inclusive(hrv_pct, rhr_pct, thresholds) ==
    LET hrv_min == thresholds.hrv_min_pct_baseline * 1000
        rhr_max == thresholds.rhr_max_pct_baseline * 1000
        after_hrv == IF hrv_pct <= hrv_min THEN Gate(FALSE, FALSE)
                     ELSE IF hrv_pct < hrv_min + 10000 THEN Gate(TRUE, TRUE)
                     ELSE Gate(TRUE, FALSE)
    IN  IF rhr_pct > rhr_max THEN Gate(FALSE, after_hrv.marginal) ELSE after_hrv

\* first the HRV if / elif, then the separate RHR if
autonomic_gate(hrv_pct, rhr_pct, thresholds) ==
    LET hrv_min == thresholds.hrv_min_pct_baseline * 1000
        rhr_max == thresholds.rhr_max_pct_baseline * 1000
        after_hrv == IF hrv_pct < hrv_min THEN Gate(FALSE, FALSE)
                     ELSE IF hrv_pct < hrv_min + 10000 THEN Gate(TRUE, TRUE)
                     ELSE Gate(TRUE, FALSE)
    IN  IF rhr_pct > rhr_max THEN Gate(FALSE, after_hrv.marginal) ELSE after_hrv

musculoskeletal_gate(injury_signals, soreness_level, soreness_asymmetry, thresholds) ==
    IF injury_signals > 0 THEN Gate(FALSE, FALSE)
    ELSE IF soreness_level > thresholds.soreness_max THEN Gate(FALSE, FALSE)
    ELSE IF soreness_asymmetry THEN Gate(TRUE, TRUE)
    ELSE IF soreness_level > thresholds.soreness_max - 2 THEN Gate(TRUE, TRUE)
    ELSE Gate(TRUE, FALSE)

\* the life-stress if / elif, then the cognitive-fatigue if / elif; the
\* second appends "stress" only when the first has not
stress_gate(life_stress, cognitive_fatigue, thresholds) ==
    LET after_level == IF life_stress > thresholds.stress_max THEN Gate(FALSE, FALSE)
                       ELSE IF life_stress > thresholds.stress_max - 2 THEN Gate(TRUE, TRUE)
                       ELSE Gate(TRUE, FALSE)
    IN  IF cognitive_fatigue = "high" THEN Gate(FALSE, after_level.marginal)
        ELSE IF cognitive_fatigue = "moderate" THEN Gate(after_level.gate_pass, TRUE)
        ELSE after_level

\* mutant: the marginal counts of "low" and "moderate" shifted by one
intensity_recommendation_shifted(all_pass, marginal_gates) ==
    IF ~all_pass THEN "recovery_only"
    ELSE IF Len(marginal_gates) >= 3 THEN "low"
    ELSE IF Len(marginal_gates) >= 1 THEN "moderate"
    ELSE "full"

intensity_recommendation(all_pass, marginal_gates) ==
    IF ~all_pass THEN "recovery_only"
    ELSE IF Len(marginal_gates) >= 2 THEN "low"
    ELSE IF Len(marginal_gates) = 1 THEN "moderate"
    ELSE "full"

GateNames == {"sleep", "energy", "autonomic", "musculoskeletal", "stress"}

\* a gate's dictionary: the verdict together with the inputs stored beside it
Stored(gate, inputs) ==
    [k \in DOMAIN gate \cup DOMAIN inputs |-> IF k \in DOMAIN inputs THEN inputs[k] ELSE gate[k]]

all_gates_pass(gates) == \A g \in GateNames : gates[g].gate_pass

check_health_gates(st, cfg) ==
    LET thresholds == cfg.health_gates
        hrv_pct == gate_pct(Get(st.hrv_current), Get(st.hrv_baseline))
        rhr_pct == gate_pct(Get(st.rhr_current), Get(st.rhr_baseline))
        weight_trend == IF st.weight_trend = "absent" THEN "stable" ELSE st.weight_trend
        soreness_level == GetDefault(st.soreness_level, 0)
        life_stress == GetDefault(st.life_stress_level, 3)
        cognitive_fatigue == IF st.cognitive_fatigue = "absent" THEN "low"
                             ELSE st.cognitive_fatigue
        gates == [ sleep |-> sleep_gate(Get(st.sleep_last_night_hours), thresholds),
                   energy |-> Stored(energy_gate(weight_trend),
                                     [weight_trend |-> weight_trend]),
                   autonomic |-> autonomic_gate(hrv_pct, rhr_pct, thresholds),
                   musculoskeletal |->
                       Stored(musculoskeletal_gate(st.injury_signals, soreness_level.v,
                                                   st.soreness_asymmetry, thresholds),
                              [ injury_signals |-> st.injury_signals,
                                soreness_level |-> soreness_level,
                                soreness_asymmetry |-> st.soreness_asymmetry ]),
                   stress |-> Stored(stress_gate(life_stress.v, cognitive_fatigue, thresholds),
                                     [ life_stress_level |-> life_stress,
                                       cognitive_fatigue |-> cognitive_fatigue ]) ]
        marginal_gates ==
            Mark(Mark(Mark(Mark(Mark(<<>>, gates.sleep, "sleep"), gates.energy, "energy"),
                           gates.autonomic, "autonomic"),
                      gates.musculoskeletal, "musculoskeletal"),
                 gates.stress, "stress")
        all_pass == all_gates_pass(gates)
    IN  [ sleep |-> gates.sleep,
          energy |-> gates.energy,
          autonomic |-> gates.autonomic,
          musculoskeletal |-> gates.musculoskeletal,
          stress |-> gates.stress,
          hrv_pct |-> hrv_pct,
          rhr_pct |-> rhr_pct,
          overall |-> [ all_gates_pass |-> all_pass,
                        gates_marginal |-> marginal_gates,
                        intensity_allowed |-> all_pass,
                        intensity_recommendation |->
                            intensity_recommendation(all_pass, marginal_gates) ] ]

(***************************************************************************)
(* calculate_readiness                                                     *)
(***************************************************************************)
\* mutant: two marginal gates no longer reach the 10-point penalty
gate_penalty_off_by_one(health_gates) ==
    IF ~health_gates.overall.all_gates_pass THEN 20
    ELSE IF Len(health_gates.overall.gates_marginal) > 2 THEN 10
    ELSE IF Len(health_gates.overall.gates_marginal) >= 1 THEN 5
    ELSE 0

\* gate_penalty, in points
gate_penalty(health_gates) ==
    IF ~health_gates.overall.all_gates_pass THEN 20
    ELSE IF Len(health_gates.overall.gates_marginal) >= 2 THEN 10
    ELSE IF Len(health_gates.overall.gates_marginal) = 1 THEN 5
    ELSE 0

\* mutant: the lower clamp forgotten
final_score_no_floor(raw_score, penalty) == Min(100000, raw_score - penalty * 1000)

\* final_score = max(0, min(100, raw_score - gate_penalty))
final_score(raw_score, penalty) == Max(0, Min(100000, raw_score - penalty * 1000))

Verdict(r, k, s) == [recommendation |-> r, key_session_eligible |-> k, session_type_allowed |-> s]

\* mutant: the override for failed gates dropped
recommend_no_override(score, thresholds, gates_pass) ==
    IF score >= thresholds.key_session * 1000 THEN Verdict("green", TRUE, "key")
    ELSE IF score >= thresholds.support_session * 1000 THEN Verdict("yellow", FALSE, "support")
    ELSE Verdict("red", FALSE, "recovery")

\* mutant: the ladder tests the support threshold first
recommend_support_first(score, thresholds, gates_pass) ==
    IF ~gates_pass THEN Verdict("red", FALSE, "recovery")
    ELSE IF score >= thresholds.support_session * 1000 THEN Verdict("yellow", FALSE, "support")
    ELSE IF score >= thresholds.key_session * 1000 THEN Verdict("green", TRUE, "key")
    ELSE Verdict("red", FALSE, "recovery")

\* the threshold ladder, then the override when a gate failed
recommend(score, thresholds, gates_pass) ==
    IF ~gates_pass THEN Verdict("red", FALSE, "recovery")
    ELSE IF score >= thresholds.key_session * 1000 THEN Verdict("green", TRUE, "key")
    ELSE IF score >= thresholds.support_session * 1000 THEN Verdict("yellow", FALSE, "support")
    ELSE Verdict("red", FALSE, "recovery")

NoResult == [status |-> "none"]

\* the readings and baselines calculate_readiness extracts from the state:
\* a falsy reading falls back to whoop_daily, a missing baseline key to a default
factor_inputs(st) ==
    [ hrv_current |-> Or(Get(st.hrv_current), Get(st.whoop_hrv)),
      hrv_baseline |-> GetDefault(st.hrv_baseline, 45),
      sleep_last |-> Or(Get(st.sleep_last_night_hours), Get(st.whoop_sleep_hours)),
      sleep_avg |-> Get(st.sleep_7d_avg_hours),
      recovery_current |-> Or(Get(st.recovery_current), Get(st.whoop_recovery_score)),
      recovery_baseline |-> GetDefault(st.recovery_baseline, 65),
      tsb |-> Get(st.tsb),
      rhr_current |-> Or(Get(st.rhr_current), Get(st.whoop_resting_hr)),
      rhr_baseline |-> GetDefault(st.rhr_baseline, 52) ]

calculate_readiness(st, conf) ==
    LET cfg == MergeConfig(conf)
        weights == cfg.weights
        in == factor_inputs(st)
        hrv_current == in.hrv_current
        hrv_baseline == in.hrv_baseline
        sleep_last == in.sleep_last
        sleep_avg == in.sleep_avg
        recovery_current == in.recovery_current
        recovery_baseline == in.recovery_baseline
        tsb == in.tsb
        rhr_current == in.rhr_current
        rhr_baseline == in.rhr_baseline
        factors ==
            [ hrv_status |-> calculate_hrv_contribution(hrv_current, hrv_baseline, weights.hrv),
              sleep_status |->
                  calculate_sleep_contribution(sleep_last, sleep_avg, SleepTarget, weights.sleep),
              recovery_score |->
                  calculate_recovery_contribution(recovery_current, recovery_baseline,
                                                  weights.recovery),
              tsb_status |-> calculate_tsb_contribution(tsb, cfg.tsb_optimal, weights.tsb),
              rhr_status |-> calculate_rhr_contribution(rhr_current, rhr_baseline, weights.rhr) ]
        raw_score == factors.hrv_status.contribution + factors.sleep_status.contribution
                     + factors.recovery_score.contribution + factors.tsb_status.contribution
                     + factors.rhr_status.contribution
        health_gates == check_health_gates(st, cfg)
        penalty == gate_penalty(health_gates)
        final == final_score(raw_score, penalty)
        verdict == recommend(final, cfg.thresholds, health_gates.overall.all_gates_pass)
    IN  IF \E f \in DOMAIN factors : factors[f].raised
        THEN [status |-> "raised"]
        ELSE [ status |-> "ok",
               score |-> Round(final),
               threshold_key_session |-> cfg.thresholds.key_session,
               threshold_support_session |-> cfg.thresholds.support_session,
               recommendation |-> verdict.recommendation,
               key_session_eligible |-> verdict.key_session_eligible,
               session_type_allowed |-> verdict.session_type_allowed,
               factors |-> factors,
               raw_score |-> raw_score,
               gate_penalties |-> penalty,
               final_score |-> final,
               health_gates |-> health_gates ]

(***************************************************************************)
(* The readiness state machine: an athlete state is written field by field *)
(* (profile_manager.update_state), then calculate_readiness is called.     *)
(***************************************************************************)
\* most update_state calls made before readiness is calculated
MaxEdits == 2

\* update_state starts from {"_meta": {}} when no state file exists
EmptyState ==
    [ hrv_current |-> Absent, hrv_baseline |-> Absent,
      sleep_last_night_hours |-> Absent, sleep_7d_avg_hours |-> Absent,
      recovery_current |-> Absent, recovery_baseline |-> Absent,
      tsb |-> Absent,
      rhr_current |-> Absent, rhr_baseline |-> Absent,
      whoop_hrv |-> Absent, whoop_sleep_hours |-> Absent,
      whoop_recovery_score |-> Absent, whoop_resting_hr |-> Absent,
      weight_trend |-> "absent", injury_signals |-> 0,
      soreness_level |-> Absent, soreness_asymmetry |-> FALSE,
      life_stress_level |-> Absent, cognitive_fatigue |-> "absent" ]

\* a populated state of a rested athlete: every reading at its baseline
RestedState ==
    [ hrv_current |-> Some(50), hrv_baseline |-> Some(50),
      sleep_last_night_hours |-> Some(800), sleep_7d_avg_hours |-> Some(800),
      recovery_current |-> Some(65), recovery_baseline |-> Some(65),
      tsb |-> Some(0),
      rhr_current |-> Some(50), rhr_baseline |-> Some(50),
      whoop_hrv |-> Absent, whoop_sleep_hours |-> Absent,
      whoop_recovery_score |-> Absent, whoop_resting_hr |-> Absent,
      weight_trend |-> "stable", injury_signals |-> 0,
      soreness_level |-> Some(2), soreness_asymmetry |-> FALSE,
      life_stress_level |-> Some(3), cognitive_fatigue |-> "low" ]

\* the values update_state writes, per key
FieldValues ==
    [ hrv_current |-> {Null, Some(0), Some(36), Some(40), Some(50)},
      hrv_baseline |-> {Null, Some(0), Some(50)},
      sleep_last_night_hours |-> {Null, Some(600), Some(720), Some(800)},
      sleep_7d_avg_hours |-> {Null, Some(700), Some(800)},
      recovery_current |-> {Null, Some(30), Some(35), Some(65), Some(95)},
      recovery_baseline |-> {Null, Some(0), Some(65)},
      tsb |-> {Null, Some(-35), Some(-10), Some(0), Some(40)},
      rhr_current |-> {Null, Some(50), Some(55), Some(56)},
      rhr_baseline |-> {Null, Some(0), Some(50)},
      whoop_hrv |-> {Some(30), Some(45)},
      whoop_sleep_hours |-> {Some(800)},
      whoop_recovery_score |-> {Some(70)},
      whoop_resting_hr |-> {Some(52)},
      weight_trend |-> {"stable", "declining", "declining_fast"},
      injury_signals |-> {0, 1},
      soreness_level |-> {Some(2), Some(6), Some(8)},
      soreness_asymmetry |-> {FALSE, TRUE},
      life_stress_level |-> {Some(3), Some(6), Some(8)},
      cognitive_fatigue |-> {"low", "moderate", "high"} ]

\* the config arguments calculate_readiness is called with: None, stricter
\* thresholds and gates, and weights that sum to 1.5
NoConfig == [s \in {} |-> 0]
StrictConfig ==
    [ thresholds |-> [key_session |-> 80, support_session |-> 50],
      health_gates |-> [ sleep_min_hours |-> 750,
                         sleep_debt_max_hours |-> 500,
                         hrv_min_pct_baseline |-> 85,
                         rhr_max_pct_baseline |-> 105,
                         soreness_max |-> 6,
                         stress_max |-> 6 ] ]
HeavyConfig ==
    [ weights |-> [hrv |-> 40, sleep |-> 30, recovery |-> 30, tsb |-> 30, rhr |-> 20] ]
Configs == {NoConfig, StrictConfig, HeavyConfig}

ReadinessInit ==
    /\ state \in {EmptyState, RestedState}
    /\ config \in Configs
    /\ edits = 0
    /\ result = NoResult
    /\ pc = "edit"
    /\ previous = NoResult

\* update_state(athlete, {key: value})
update_state ==
    /\ pc = "edit"
    /\ edits < MaxEdits
    /\ \E key \in DOMAIN FieldValues :
          \E value \in FieldValues[key] :
              state' = [state EXCEPT ![key] = value]
    /\ edits' = edits + 1
    /\ UNCHANGED <<config, result, pc, previous, other_than_readiness>>

\* result = calculate_readiness(state, config)
CalculateReadiness ==
    /\ pc = "edit"
    /\ result' = calculate_readiness(state, config)
    /\ pc' = "done"
    /\ UNCHANGED <<state, config, edits, previous, other_than_readiness>>

\* mutant: the stored energy gate loses its weight_trend
write_back_without_trend(st, health_gates) ==
    [st EXCEPT !.weight_trend = "absent",
               !.injury_signals = health_gates.musculoskeletal.injury_signals,
               !.soreness_level = health_gates.musculoskeletal.soreness_level,
               !.soreness_asymmetry = health_gates.musculoskeletal.soreness_asymmetry,
               !.life_stress_level = health_gates.stress.life_stress_level,
               !.cognitive_fatigue = health_gates.stress.cognitive_fatigue]

\* state["health_gates"] = result["health_gates"]: the section the gate
\* inputs are read from is replaced by the gates' own dictionaries
write_back(st, health_gates) ==
    [st EXCEPT !.weight_trend = health_gates.energy.weight_trend,
               !.injury_signals = health_gates.musculoskeletal.injury_signals,
               !.soreness_level = health_gates.musculoskeletal.soreness_level,
               !.soreness_asymmetry = health_gates.musculoskeletal.soreness_asymmetry,
               !.life_stress_level = health_gates.stress.life_stress_level,
               !.cognitive_fatigue = health_gates.stress.cognitive_fatigue]

\* update_athlete_readiness(athlete): calculate_readiness(state), a call that
\* passes no config; then the readiness and health_gates sections are
\* replaced by the result and the state is saved; an exception leaves the
\* file as it was
update_athlete_readiness ==
    /\ pc \in {"edit", "written"}
    /\ config = NoConfig
    /\ LET r == calculate_readiness(state, config)
       IN  /\ result' = r
           /\ previous' = result
           /\ IF r.status = "ok"
              THEN state' = write_back(state, r.health_gates) /\ pc' = "written"
              ELSE state' = state /\ pc' = "failed"
    /\ UNCHANGED <<config, edits, other_than_readiness>>

ReadinessNext == update_state \/ CalculateReadiness \/ update_athlete_readiness

(***************************************************************************)
(* Exact arithmetic on large naturals.  Python integers do not overflow;   *)
(* the fourth powers of the window sums do not fit the model checker's     *)
(* integers, so they are kept as little-endian sequences of base-10000     *)
(* digits without leading zeros (0 is the empty sequence).                 *)
(***************************************************************************)
RECURSIVE BigOf(_)
BigOf(n) == IF n = 0 THEN <<>> ELSE <<n % 10000>> \o BigOf(n \div 10000)

RECURSIVE BigAddCarry(_, _, _)
BigAddCarry(a, b, carry) ==
    IF a = <<>> /\ b = <<>> THEN BigOf(carry)
    ELSE LET x == IF a = <<>> THEN 0 ELSE Head(a)
             y == IF b = <<>> THEN 0 ELSE Head(b)
             t == x + y + carry
         IN  <<t % 10000>> \o BigAddCarry(IF a = <<>> THEN a ELSE Tail(a),
                                          IF b = <<>> THEN b ELSE Tail(b),
                                          t \div 10000)

BigAdd(a, b) == BigAddCarry(a, b, 0)

\* a * m for an ordinary natural m < 200000
RECURSIVE BigScaleCarry(_, _, _)
BigScaleCarry(a, m, carry) ==
    IF a = <<>> THEN BigOf(carry)
    ELSE LET t == Head(a) * m + carry
         IN  <<t % 10000>> \o BigScaleCarry(Tail(a), m, t \div 10000)

BigScale(a, m) == IF m = 0 THEN <<>> ELSE BigScaleCarry(a, m, 0)

RECURSIVE BigMul(_, _)
BigMul(a, b) ==
    IF a = <<>> \/ b = <<>> THEN <<>>
    ELSE LET rest == BigMul(a, Tail(b))
         IN  BigAdd(BigScale(a, Head(b)), IF rest = <<>> THEN rest ELSE <<0>> \o rest)

\* n ** 4
BigPow4(n) == LET sq == BigMul(BigOf(n), BigOf(n)) IN BigMul(sq, sq)

\* a <= b
RECURSIVE BigLeq(_, _)
BigLeq(a, b) ==
    IF Len(a) # Len(b) THEN Len(a) < Len(b)
    ELSE IF a = <<>> THEN TRUE
    ELSE LET x == a[Len(a)]
             y == b[Len(b)]
         IN  IF x # y THEN x < y
             ELSE BigLeq(SubSeq(a, 1, Len(a) - 1), SubSeq(b, 1, Len(b) - 1))

\* a non-negative rational num / den
Ratio(n, d) == [num |-> n, den |-> d]

\* x >= y and x = y for two such rationals
RatioGeq(x, y) == BigLeq(BigMul(y.num, x.den), BigMul(x.num, y.den))
RatioEq(x, y) == BigMul(y.num, x.den) = BigMul(x.num, y.den)

(***************************************************************************)
(* pwx_parser: calculate_metrics                                           *)
(***************************************************************************)
RECURSIVE SumSeq(_)
SumSeq(xs) == IF xs = <<>> THEN 0 ELSE Head(xs) + SumSeq(Tail(xs))

\* tp['power'] is not None and tp['power'] > 0
HasPower(tp) == ~IsNone(tp.power) /\ tp.power.v > 0

\* power_values = [tp['power'] for tp in trackpoints if ...]
power_values_of(tps) ==
    LET kept == SelectSeq(tps, HasPower)
    IN  [i \in 1..Len(kept) |-> kept[i].power.v]

\* the length of a rolling window, in samples
Window == 30

\* sum of power_values[i : i + 30], the window starting at the i-th sample
WindowSum(power_values, i) == SumSeq(SubSeq(power_values, i, i + Window - 1))

\* the sums of all stride-1 windows; each rolling mean is its sum / 30
RollingSums(power_values) ==
    [i \in 1..(Len(power_values) - Window + 1) |-> WindowSum(power_values, i)]

RECURSIVE SumPow4(_)
SumPow4(xs) == IF xs = <<>> THEN <<>> ELSE BigAdd(BigPow4(Head(xs)), SumPow4(Tail(xs)))

\* mutant: the sum of fourth powers divided by the number of samples instead
\* of the number of windows
calculate_np_per_sample(power_values) ==
    IF Len(power_values) < Window
    THEN Ratio(BigPow4(SumSeq(power_values)), BigPow4(Len(power_values)))
    ELSE LET rolling == RollingSums(power_values)
         IN  Ratio(SumPow4(rolling), BigScale(BigPow4(Window), Len(power_values)))

\* _calculate_np, returned as NP ** 4 (an exact rational): the mean of the
\* samples raised to the fourth for fewer than 30 samples, else the mean of
\* the fourth powers of the rolling means
calculate_np(power_values) ==
    IF Len(power_values) < Window
    THEN Ratio(BigPow4(SumSeq(power_values)), BigPow4(Len(power_values)))
    ELSE LET rolling == RollingSums(power_values)
         IN  Ratio(SumPow4(rolling), BigScale(BigPow4(Window), Len(rolling)))

\* the zone of one sample: pct = (p / ftp) * 100 through the if / elif ladder
zone_of(p, ftp_) ==
    LET pct == Pct(p, ftp_)
    IN  IF pct < 55000 THEN 1
        ELSE IF pct < 76000 THEN 2
        ELSE IF pct < 91000 THEN 3
        ELSE IF pct < 106000 THEN 4
        ELSE IF pct < 121000 THEN 5
        ELSE IF pct < 151000 THEN 6
        ELSE 7

\* mutant: zone 2 tested with a separate if, so a sample below 55 percent is
\* counted in zone 1 and in zone 2
calculate_zones_if(power_values, ftp_) ==
    [z \in 1..7 |->
        Cardinality({i \in 1..Len(power_values) :
                        \/ zone_of(power_values[i], ftp_) = z
                        \/ (z = 2 /\ zone_of(power_values[i], ftp_) = 1)})]

\* _calculate_zones: seconds per zone
calculate_zones(power_values, ftp_) ==
    [z \in 1..7 |->
        Cardinality({i \in 1..Len(power_values) : zone_of(power_values[i], ftp_) = z})]

NoMetrics == [status |-> "pending"]

\* tp['hr'] is not None and tp['hr'] > 0
HasHr(tp) == ~IsNone(tp.hr) /\ tp.hr.v > 0

\* hr_values = [tp['hr'] for tp in trackpoints if ...]
hr_values_of(tps) ==
    LET kept == SelectSeq(tps, HasHr)
    IN  [i \in 1..Len(kept) |-> kept[i].hr.v]

NoDecoupling == [k |-> "None", num |-> 0, den |-> 1]

\* _calculate_decoupling: None, or ((ef1 - ef2) / ef1) * 100 kept as the exact
\* fraction 100 * num / den.  With ef = (power sum) / (HR sum) of a half,
\* (ef1 - ef2) / ef1 = (p1 * h2 - p2 * h1) / (p1 * h2) when both halves have
\* as many samples; the second half of an odd length has one more, and its
\* means are taken over its own length, which cancels within ef2.
calculate_decoupling(power_values, hr_values) ==
    IF Len(power_values) < 2 \/ Len(hr_values) < 2 THEN NoDecoupling
    ELSE LET min_len == Min(Len(power_values), Len(hr_values))
             mid == min_len \div 2
             p1 == SumSeq(SubSeq(power_values, 1, mid))
             h1 == SumSeq(SubSeq(hr_values, 1, mid))
             p2 == SumSeq(SubSeq(power_values, mid + 1, min_len))
             h2 == SumSeq(SubSeq(hr_values, mid + 1, min_len))
         IN  IF h1 > 0 /\ h2 > 0 /\ p1 > 0 /\ p2 > 0
             THEN [k |-> "val", num |-> p1 * h2 - p2 * h1, den |-> p1 * h2]
             ELSE NoDecoupling

\* round(100 * num / den, 1) in tenths, ties to even
RoundTenths(num, den) ==
    LET q == (1000 * num) \div den
        r == (1000 * num) % den
    IN  IF 2 * r > den \/ (2 * r = den /\ q % 2 = 1) THEN q + 1 ELSE q

\* 'decoupling_pct': round(decoupling, 1) if decoupling else None, in tenths of
\* a percent; a decoupling of None or of 0.0 is falsy
decoupling_pct_of(decoupling) ==
    IF decoupling.k = "val" /\ decoupling.num # 0
    THEN Some(RoundTenths(decoupling.num, decoupling.den))
    ELSE Null

\* mutant: without a valid power sample the heart-rate part of the record is
\* still returned
calculate_metrics_partial(tps, ftp_) ==
    IF power_values_of(tps) = <<>>
    THEN [status |-> "ok", duration_seconds |-> 0, hr_seconds |-> Len(hr_values_of(tps))]
    ELSE [status |-> "None"]

\* calculate_metrics: None without a valid power sample, else the record
\* (avg_power is kept as power_sum / duration_seconds, np as NP ** 4)
calculate_metrics(tps, ftp_) ==
    LET power_values == power_values_of(tps)
        hr_values == hr_values_of(tps)
    IN  IF power_values = <<>> THEN [status |-> "None"]
        ELSE LET zones == calculate_zones(power_values, ftp_)
                 decoupling == IF hr_values # <<>>
                               THEN calculate_decoupling(power_values, hr_values)
                               ELSE NoDecoupling
             IN  [ status |-> "ok",
                   duration_seconds |-> Len(power_values),
                   power_sum |-> SumSeq(power_values),
                   np4 |-> calculate_np(power_values),
                   decoupling_pct |-> decoupling_pct_of(decoupling),
                   z1_seconds |-> zones[1], z2_seconds |-> zones[2],
                   z3_seconds |-> zones[3], z4_seconds |-> zones[4],
                   z5_seconds |-> zones[5], z6_seconds |-> zones[6],
                   z7_seconds |-> zones[7] ]

(***************************************************************************)
(* The workout state machine: a file's trackpoints arrive as blocks of     *)
(* equal power (parse_file), then calculate_metrics is called.             *)
(***************************************************************************)
\* most trackpoints in one file, and most blocks of equal power
MaxSamples == 32
MaxBlocks == 3

\* power readings for the long efforts: missing, coasting (0 W), two levels
EffortPowers == {Null, Some(0), Some(100), Some(200)}
\* block lengths for the long efforts
EffortLengths == {1, 29, 30}

\* power readings around every zone boundary of FTP 100 and FTP 200
ZonePowers ==
    {Null, Some(0), Some(54), Some(55), Some(75), Some(76), Some(90), Some(91),
     Some(105), Some(106), Some(120), Some(121), Some(150), Some(151), Some(302)}

FTPs == {100, 200}

MetricsInit ==
    /\ trackpoints = <<>>
    /\ blocks = 0
    /\ ftp \in FTPs
    /\ metrics = NoMetrics

\* a sample of the file: what _extract_pwx_sample returns for it
Sample(power, hr, cadence) == [power |-> power, hr |-> hr, cadence |-> cadence]

\* samples that carry a power reading only
PowerOnly(powers) == {Sample(p, Null, Null) : p \in powers}

\* samples of a steady ride with a heart-rate strap: power, heart rate and
\* cadence; a hard block at two heart rates; an easy block; the strap
\* dropping out; coasting; a sample without power
DriftSamples ==
    {Sample(Some(200), Some(100), Some(90)), Sample(Some(200), Some(150), Some(90)),
     Sample(Some(100), Some(100), Some(90)), Sample(Some(200), Null, Null),
     Sample(Some(0), Some(150), Some(90)), Sample(Null, Some(150), Some(90))}
\* block lengths for the steady rides
DriftLengths == {1, 2, 3}

\* parse_file reads n more samples alike from the file and keeps those whose
\* power is not None
parse_file(samples, lengths) ==
    /\ metrics = NoMetrics
    /\ blocks < MaxBlocks
    /\ \E smp \in samples :
          \E n \in lengths :
              /\ Len(trackpoints) + n <= MaxSamples
              /\ trackpoints' = IF IsNone(smp.power) THEN trackpoints
                                ELSE trackpoints \o [i \in 1..n |-> smp]
    /\ blocks' = blocks + 1
    /\ UNCHANGED <<ftp, metrics, other_than_metrics>>

\* the body of process_pwx_folder's loop for a parsed file: parse_file gives
\* None for a file without a trackpoint, else calculate_metrics is called
process_file(tps, ftp_) ==
    IF tps = <<>> THEN [status |-> "None", error |-> "failed (no power data)"]
    ELSE LET m == calculate_metrics(tps, ftp_)
         IN  IF m.status = "None" THEN [status |-> "None", error |-> "failed (calc error)"]
             ELSE m

\* trackpoints = parser.parse_file(...); metrics = parser.calculate_metrics(trackpoints)
CalculateMetrics ==
    /\ metrics = NoMetrics
    /\ metrics' = process_file(trackpoints, ftp)
    /\ UNCHANGED <<trackpoints, blocks, ftp, other_than_metrics>>

EffortNext == parse_file(PowerOnly(EffortPowers), EffortLengths) \/ CalculateMetrics
ZonesNext == parse_file(PowerOnly(ZonePowers), {1}) \/ CalculateMetrics
DriftNext == parse_file(DriftSamples, DriftLengths) \/ CalculateMetrics

(***************************************************************************)
(* build_readiness_model: CTL, ATL and TSB.  TSS is in whole points, the   *)
(* loads in thousandths of a point, the decay factors in thousandths.      *)
(***************************************************************************)
\* decay = math.exp(-1/42) and math.exp(-1/7)
decay_ctl == 976
decay_atl == 867

\* start_value: float = 50.0
start_value == 50000

\* tss_series.iloc[i] if not pd.isna(tss_series.iloc[i]) else 0
TssOrZero(x) == IF IsNone(x) THEN 0 ELSE x.v

\* the loop shared by calculate_ctl and calculate_atl: the first day holds the
\* start value, each later day  tss * (1 - decay) + previous * decay
RECURSIVE ExpAverage(_, _, _)
ExpAverage(series, decay, start) ==
    IF Len(series) <= 1 THEN <<start>>
    ELSE LET before == ExpAverage(SubSeq(series, 1, Len(series) - 1), decay, start)
             tss == TssOrZero(series[Len(series)])
         IN  Append(before, (tss * 1000 * (1000 - decay) + before[Len(before)] * decay) \div 1000)

\* mutant: the decay taken as exp(+1/42), so each day moves away from the TSS
calculate_ctl_growing(series, start) == ExpAverage(series, 1024, start)

\* calculate_ctl(tss_series, start_value) and calculate_atl(tss_series, start_value)
calculate_ctl(series, start) == ExpAverage(series, decay_ctl, start)
calculate_atl(series, start) == ExpAverage(series, decay_atl, start)

\* mutant: the balance subtracted the wrong way round
tsb_column_reversed(ctl, atl) == [i \in 1..Len(ctl) |-> atl[i] - ctl[i]]

\* df['TSB'] = df['CTL'] - df['ATL']
tsb_column(ctl, atl) == [i \in 1..Len(ctl) |-> ctl[i] - atl[i]]

\* df['TSS'].fillna(0)
fillna(series) == [i \in 1..Len(series) |-> Some(TssOrZero(series[i]))]

NoLoad == [status |-> "pending"]

\* engineer_features: the CTL, ATL and TSB columns of the daily table
engineer_features(series) ==
    LET tss == fillna(series)
        ctl == calculate_ctl(tss, start_value)
        atl == calculate_atl(tss, start_value)
    IN  [status |-> "ok", ctl |-> ctl, atl |-> atl, tsb |-> tsb_column(ctl, atl)]

\* most days in the table
MaxDays == 4

\* a day's TSS: no workout logged (NaN), a rest day, an easy and a hard day
DailyTSS == {Null, Some(0), Some(60), Some(150)}

LoadInit ==
    /\ tss_series = <<>>
    /\ load = NoLoad

\* one more calendar day in the merged daily table
AddDay ==
    /\ load = NoLoad
    /\ Len(tss_series) < MaxDays
    /\ \E t \in DailyTSS : tss_series' = Append(tss_series, t)
    /\ UNCHANGED <<load, other_than_load>>

\* df = engineer_features(data)
EngineerFeatures ==
    /\ load = NoLoad
    /\ tss_series # <<>>
    /\ load' = engineer_features(tss_series)
    /\ UNCHANGED <<tss_series, other_than_load>>

\* the start values calculate_ctl is called with: an athlete with no load
\* history, the default, and two heavily loaded ones
StartValues == {0, 50000, 100000, 200000}

\* ctl = calculate_ctl(df['TSS'], start_value) on its own
CalculateCtl ==
    /\ load = NoLoad
    /\ tss_series # <<>>
    /\ \E s \in StartValues :
          load' = [status |-> "ctl", start |-> s, ctl |-> calculate_ctl(tss_series, s)]
    /\ UNCHANGED <<tss_series, other_than_load>>

LoadNext == AddDay \/ EngineerFeatures \/ CalculateCtl

(***************************************************************************)
(* build_trainability_model and fetch_peak_powers: the Banister fits.      *)
(* Loads are whole TSS points, the simulated CTL / ATL thousandths of a    *)
(* point, k1 and k1_normalized ten-thousandths (0.3 is 3000).              *)
(***************************************************************************)
\* decay = np.exp(-1 / tau), in thousandths, for the taus the optimizers start
\* from
decay_of(tau) == CASE tau = 42 -> 976 [] tau = 45 -> 978 [] tau = 7 -> 867

\* update_load: load * (1 - decay) + prev_value * decay
update_load(prev_value, load_, tau) ==
    (load_ * 1000 * (1000 - decay_of(tau)) + prev_value * decay_of(tau)) \div 1000

\* the value ctl (or atl) holds after each pass of the loss function's loop
\* over the days: it starts at 50.0 and is updated on every day, the first
\* included
RECURSIVE simulate(_, _)
simulate(loads, tau) ==
    IF loads = <<>> THEN <<>>
    ELSE LET before == simulate(SubSeq(loads, 1, Len(loads) - 1), tau)
             prev == IF before = <<>> THEN 50000 ELSE before[Len(before)]
         IN  Append(before, update_load(prev, TssOrZero(loads[Len(loads)]), tau))

\* data['Load'].values and data['Performance'].notna().sum()
loads_of(data) == [i \in 1..Len(data) |-> data[i].Load]
perf_count_of(data) == Cardinality({i \in 1..Len(data) : ~IsNone(data[i].Performance)})

\* classify_responder: the 'type' of the record it returns
classify_responder(k1) ==
    IF k1 > 3000 THEN "Quick Responder"
    ELSE IF k1 >= 1000 THEN "Medium Responder"
    ELSE "Slow Responder"

\* the k1 a bounded L-BFGS-B run can stop at, per fit: any value within its
\* bounds (0.0001, 1.0), (0.001, 0.5) and (0.01, 10)
K1OfTsbFit == {1, 9, 10, 30, 31, 10000}
K1OfFullFit == {10, 30, 31, 5000}
K1OfPeaksFit == {100, 999, 1000, 3000, 3001, 100000}

NoFit == [status |-> "pending"]

\* run_banister_model(data, use_tsb_model) when the optimizer stops at k1;
\* loss_ctl and loss_atl are the series the loss function simulates at the
\* initial guess
run_banister_model(data, use_tsb_model, k1) ==
    IF perf_count_of(data) < 10 THEN [status |-> "ValueError"]
    ELSE LET tau1 == IF use_tsb_model THEN 42 ELSE 45
         IN  [status |-> "ok",
              model_type |-> IF use_tsb_model THEN "tsb" ELSE "full",
              k1 |-> k1,
              k1_normalized |-> Some(k1 * 100),
              responder |-> classify_responder(k1 * 100),
              n |-> perf_count_of(data),
              tau1 |-> tau1,
              tau2 |-> 7,
              loss_ctl |-> simulate(loads_of(data), tau1),
              loss_atl |-> simulate(loads_of(data), 7)]

\* run_banister_with_peaks(daily_tss, peak_powers, duration_col) on the merged
\* table when the optimizer stops at k1
run_banister_with_peaks(data, k1) ==
    IF perf_count_of(data) < 15 THEN [status |-> "None"]
    ELSE [status |-> "ok",
          model_type |-> "peaks",
          k1 |-> k1,
          k1_normalized |-> Absent,
          responder |-> IF k1 > 3000 THEN "Quick Responder"
                        ELSE IF k1 >= 1000 THEN "Medium Responder"
                        ELSE "Slow Responder",
          n |-> perf_count_of(data),
          tau1 |-> 42,
          tau2 |-> 7,
          loss_ctl |-> simulate(fillna(loads_of(data)), 42),
          loss_atl |-> simulate(fillna(loads_of(data)), 7)]

\* most days and most training blocks in a Load / Performance table
MaxFitDays == 16
MaxFitBlocks == 3

\* a day of the table: no load and no performance, an easy and a hard day
\* with a performance, a hard day without
FitDays ==
    {[Load |-> Null, Performance |-> Null],
     [Load |-> Some(50), Performance |-> Some(1)],
     [Load |-> Some(100), Performance |-> Some(1)],
     [Load |-> Some(100), Performance |-> Null]}

\* days in a block of identical days
FitLengths == {1, 4, 10}

FitInit ==
    /\ daily = <<>>
    /\ fit_blocks = 0
    /\ fit = NoFit

\* one more block of days in the table
AddFitDays ==
    /\ fit = NoFit
    /\ fit_blocks < MaxFitBlocks
    /\ \E d \in FitDays :
          \E n \in FitLengths :
              /\ Len(daily) + n <= MaxFitDays
              /\ daily' = daily \o [i \in 1..n |-> d]
    /\ fit_blocks' = fit_blocks + 1
    /\ UNCHANGED <<fit, other_than_fit>>

\* results = run_banister_model(banister_data), TSB form
RunBanisterTsb ==
    /\ fit = NoFit
    /\ daily # <<>>
    /\ \E k1 \in K1OfTsbFit : fit' = run_banister_model(daily, TRUE, k1)
    /\ UNCHANGED <<daily, fit_blocks, other_than_fit>>

\* results = run_banister_model(banister_data, use_tsb_model=False)
RunBanisterFull ==
    /\ fit = NoFit
    /\ daily # <<>>
    /\ \E k1 \in K1OfFullFit : fit' = run_banister_model(daily, FALSE, k1)
    /\ UNCHANGED <<daily, fit_blocks, other_than_fit>>

\* r = run_banister_with_peaks(daily_tss, peak_df, col)
RunBanisterWithPeaks ==
    /\ fit = NoFit
    /\ daily # <<>>
    /\ \E k1 \in K1OfPeaksFit : fit' = run_banister_with_peaks(daily, k1)
    /\ UNCHANGED <<daily, fit_blocks, other_than_fit>>

FitNext == AddFitDays \/ RunBanisterTsb \/ RunBanisterFull \/ RunBanisterWithPeaks

(***************************************************************************)
(* The factor calculations called on their own                             *)
(***************************************************************************)
\* readings: none, and every whole value from a TSB of -40 to a reading of 110
ProbeReadings == {Null} \cup {Some(n) : n \in -40..110}

\* baselines: none, zero, and two usual ones
ProbeBaselines == {Null, Some(0), Some(50), Some(65)}

\* weights: the factor alone (1.0), and 0.20
ProbeWeights == {100, 20}

\* optimal TSB ranges: the default one and a narrower one
ProbeRanges == {DEFAULT_CONFIG.tsb_optimal,
                [min |-> -10, max |-> 10, worst_low |-> -20, worst_high |-> 20]}

\* nights of sleep, in hundredths of an hour: none, 0 h, 3 h, 9 h, and every
\* hundredth around 75, 87.5 and 100 percent of the targets
SleepReadings ==
    {Null} \cup {Some(n) : n \in {0, 300, 900} \cup 555..610 \cup 650..660 \cup 695..705
                                  \cup 745..755 \cup 795..805}

\* 7-day averages: none, on target, and an hour short of it
SleepAverages == {Null, Some(800), Some(700)}

\* sleep targets: the 8.0 h calculate_readiness passes, and 7.5 h
SleepTargets == {800, 750}

NoScore == [factor |-> "none"]

\* the arguments of one call: of the HRV, recovery and TSB calculations, or
\* (with a target) of the sleep calculation, current being last night's hours
\* and baseline the 7-day average
ProbeInit ==
    /\ probe \in [current : ProbeReadings, baseline : ProbeBaselines,
                  weight : ProbeWeights, optimal_range : ProbeRanges]
               \cup [current : SleepReadings, baseline : SleepAverages,
                     weight : ProbeWeights, optimal_range : {DEFAULT_CONFIG.tsb_optimal},
                     target : SleepTargets]
    /\ scored = NoScore

\* calculate_hrv_contribution(current, baseline, weight); an HRV is not negative
ScoreHrv ==
    /\ scored = NoScore
    /\ IsNone(probe.current) \/ probe.current.v >= 0
    /\ probe.optimal_range = DEFAULT_CONFIG.tsb_optimal
    /\ scored' = [factor |-> "hrv",
                  out |-> calculate_hrv_contribution(probe.current, probe.baseline, probe.weight)]
    /\ UNCHANGED <<probe, other_than_probe>>

\* calculate_recovery_contribution(current, baseline, weight); a WHOOP recovery
\* is between 0 and 100
ScoreRecovery ==
    /\ scored = NoScore
    /\ IsNone(probe.current) \/ (probe.current.v >= 0 /\ probe.current.v <= 100)
    /\ probe.optimal_range = DEFAULT_CONFIG.tsb_optimal
    /\ scored' = [factor |-> "recovery",
                  out |-> calculate_recovery_contribution(probe.current, probe.baseline,
                                                          probe.weight)]
    /\ UNCHANGED <<probe, other_than_probe>>

\* calculate_tsb_contribution(tsb, optimal_range, weight); it takes no baseline
ScoreTsb ==
    /\ scored = NoScore
    /\ probe.baseline = Null
    /\ scored' = [factor |-> "tsb",
                  out |-> calculate_tsb_contribution(probe.current, probe.optimal_range,
                                                     probe.weight)]
    /\ UNCHANGED <<probe, other_than_probe>>

\* calculate_sleep_contribution(last_night, avg_7d, target, weight)
ScoreSleep ==
    /\ scored = NoScore
    /\ "target" \in DOMAIN probe
    /\ scored' = [factor |-> "sleep",
                  out |-> calculate_sleep_contribution(probe.current, probe.baseline,
                                                       probe.target, probe.weight)]
    /\ UNCHANGED <<probe, other_than_probe>>

ProbeNext == ScoreHrv \/ ScoreRecovery \/ ScoreTsb \/ ScoreSleep

(***************************************************************************)
(* generate_weekly_intent.  TSB and the readiness score are whole points.  *)
(***************************************************************************)
\* DEFAULT_CONFIG of generate_weekly_intent.py: the entries the key-session
\* target depends on
WEEKLY_DEFAULT_CONFIG ==
    [ base_key_sessions |-> 2,
      tsb_thresholds |-> [fresh |-> 5, neutral_low |-> -5, tired |-> -15, exhausted |-> -25],
      readiness_thresholds |-> [high |-> 75, moderate |-> 60, low |-> 45] ]

determine_fatigue_status(tsb, conf) ==
    IF tsb > conf.tsb_thresholds.fresh THEN "fresh"
    ELSE IF tsb > conf.tsb_thresholds.neutral_low THEN "normal"
    ELSE IF tsb > conf.tsb_thresholds.tired THEN "tired"
    ELSE "exhausted"

determine_readiness_status(score, conf) ==
    IF score >= conf.readiness_thresholds.high THEN "high"
    ELSE IF score >= conf.readiness_thresholds.moderate THEN "moderate"
    ELSE IF score >= conf.readiness_thresholds.low THEN "low"
    ELSE "very_low"

fatigue_adjustments == [fresh |-> 1, normal |-> 0, tired |-> -1, exhausted |-> -2]
readiness_adjustments == [high |-> 0, moderate |-> 0, low |-> -1, very_low |-> -2]
phase_limits == [base |-> 2, build |-> 3, peak |-> 2, taper |-> 1, recovery |-> 0]

\* d.get(key, default) on one of the three tables
Lookup(table, key, default) == IF key \in DOMAIN table THEN table[key] ELSE default

\* mutant: the floor at 0 forgotten
calculate_key_sessions_target_no_floor(fatigue_status, readiness_status, phase, conf) ==
    LET adjustment == Lookup(fatigue_adjustments, fatigue_status, 0)
                      + Lookup(readiness_adjustments, readiness_status, 0)
    IN  Min(conf.base_key_sessions + adjustment, Lookup(phase_limits, phase, 2))

calculate_key_sessions_target(fatigue_status, readiness_status, phase, conf) ==
    LET adjustment == Lookup(fatigue_adjustments, fatigue_status, 0)
                      + Lookup(readiness_adjustments, readiness_status, 0)
        target == conf.base_key_sessions + adjustment
        phase_limit == Lookup(phase_limits, phase, 2)
    IN  Max(0, Min(target, phase_limit))

\* the constraints list, in the order it is appended to
constraints_of(fatigue_status, readiness_status, ramp_rate) ==
    (IF fatigue_status = "exhausted" THEN <<"No key sessions until TSB > -15">>
     ELSE IF fatigue_status = "tired" THEN <<"Max 1 key session early in week">>
     ELSE <<>>)
    \o (IF ramp_rate > 5 THEN <<"Ramp rate elevated - avoid adding load">> ELSE <<>>)
    \o (IF readiness_status = "very_low"
        THEN <<"All sessions recovery until readiness > 45">> ELSE <<>>)

NoIntent == [status |-> "none"]

\* generate_weekly_intent(profile, state, config): a TSB or a score stored as
\* null is compared with a number and raises TypeError
generate_weekly_intent(w, conf) ==
    LET phase == IF w.phase = "absent" THEN "base" ELSE w.phase
        readiness_score == GetDefault(w.readiness_score, 70)
        tsb == GetDefault(w.tsb, 0)
    IN  IF IsNone(tsb) \/ IsNone(readiness_score) THEN [status |-> "TypeError"]
        ELSE LET fatigue_status == determine_fatigue_status(tsb.v, conf)
                 readiness_status == determine_readiness_status(readiness_score.v, conf)
                 key_sessions == calculate_key_sessions_target(fatigue_status, readiness_status,
                                                               phase, conf)
             IN  [ status |-> "ok",
                   key_sessions_target |-> key_sessions,
                   key_sessions_completed |-> 0,
                   key_sessions_remaining |-> key_sessions,
                   priority |-> IF fatigue_status \in {"tired", "exhausted"}
                                   \/ readiness_status \in {"low", "very_low"}
                                THEN "recover > respond > complete"
                                ELSE "respond > complete",
                   phase |-> phase,
                   context |-> [ fatigue_status |-> fatigue_status,
                                 readiness_status |-> readiness_status,
                                 tsb_at_generation |-> tsb.v,
                                 readiness_at_generation |-> readiness_score.v,
                                 ramp_rate |-> w.ramp_rate ],
                   constraints |-> constraints_of(fatigue_status, readiness_status,
                                                  w.ramp_rate) ]

\* TSB and readiness scores on both sides of every threshold, not stored, or
\* stored as null
WeekTsbs == {Absent, Null} \cup {Some(n) : n \in {-20, -15, -14, -5, -4, 5, 6}}
WeekScores == {Absent, Null} \cup {Some(n) : n \in {30, 44, 45, 59, 60, 74, 75, 90}}
\* the five phases, a profile without a phase, and a phase the table lacks
WeekPhases == {"base", "build", "peak", "taper", "recovery", "absent", "offseason"}
WeekRampRates == {0, 6}

IntentInit ==
    /\ week \in [tsb : WeekTsbs, readiness_score : WeekScores, phase : WeekPhases,
                 ramp_rate : WeekRampRates]
    /\ intent = NoIntent

\* intent = generate_weekly_intent(profile, state)
GenerateWeeklyIntent ==
    /\ intent = NoIntent
    /\ intent' = generate_weekly_intent(week, WEEKLY_DEFAULT_CONFIG)
    /\ UNCHANGED <<week, other_than_intent>>

IntentNext == GenerateWeeklyIntent

(***************************************************************************)
(* recommend_session.py: the daily session recommendation.  Readiness      *)
(* scores and thresholds are whole points.                                 *)
(***************************************************************************)
Category(category, names) == [category |-> category, names |-> names]

\* ARCHETYPES: per session type the categories in dictionary order, each
\* with the names of its workouts
ARCHETYPES ==
    [ key |-> << Category("vo2max", {"4x4 VO2max", "30/30s VO2", "6x4m VO2 Spaced",
                                     "3x10min VO2 Buffers"}),
                 Category("threshold", {"2x20 Threshold", "Over/Unders", "TT Efforts"}),
                 Category("gspot", {"G-Spot Intervals", "2x30 Z3", "Tempo Blocks"}),
                 Category("durability", {"4hr Endurance w/ Surges",
                                         "5hr Endurance w/ Surges"}) >>,
      support |-> << Category("endurance", {"3h Low Endurance", "4h Steady Endurance",
                                            "90min Z2"}),
                     Category("sfr", {"SFR Muscle Force", "Low Cadence Strength"}),
                     Category("cadence", {"High Cadence Drills", "Spin-ups"}) >>,
      recovery |-> << Category("active_recovery", {"60min Active Recovery", "60min Z1 Recovery",
                                                   "Active Recovery Flush"}),
                      Category("rest", {"Complete Rest"}) >> ]

PHASE_PRIORITIES ==
    [ base |-> <<"endurance", "gspot", "sfr">>,
      build |-> <<"threshold", "vo2max", "gspot">>,
      peak |-> <<"vo2max", "threshold", "durability">>,
      taper |-> <<"gspot", "active_recovery", "endurance">>,
      recovery |-> <<"active_recovery", "rest">> ]

\* check_health_gates of recommend_session.py: the stored overall verdict,
\* True when the state has none
stored_gates_pass(t) == GetDefault(t.all_gates_pass, TRUE).v

determine_session_type(readiness_score, gates_pass, key_threshold, support_threshold) ==
    IF ~gates_pass THEN "recovery"
    ELSE IF readiness_score >= key_threshold THEN "key"
    ELSE IF readiness_score >= support_threshold THEN "support"
    ELSE "recovery"

\* the categories of a session type that bear the name
Named(archetypes, name) ==
    {i \in 1..Len(archetypes) : archetypes[i].category = name}

\* the first of the priorities that is a category of the session type, or
\* the first category when none is
RECURSIVE selected_category(_, _)
selected_category(archetypes, priorities) ==
    IF priorities = <<>> THEN archetypes[1]
    ELSE IF Named(archetypes, Head(priorities)) # {}
         THEN archetypes[CHOOSE i \in Named(archetypes, Head(priorities)) : TRUE]
    ELSE selected_category(archetypes, Tail(priorities))

NoWeeklyIntent == [present |-> FALSE]

\* select_archetype: the archetypes random.choice can return.  A key session
\* with the week's key sessions used up is selected again as a support
\* session, without the weekly intent.
RECURSIVE select_archetype(_, _, _)
select_archetype(session_type, phase, weekly_intent) ==
    IF session_type \notin DOMAIN ARCHETYPES
    THEN {[name |-> "60min Active Recovery"]}
    ELSE LET archetypes == ARCHETYPES[session_type]
             priorities == IF phase \in DOMAIN PHASE_PRIORITIES THEN PHASE_PRIORITIES[phase]
                           ELSE <<"endurance">>
             selected == selected_category(archetypes, priorities)
         IN  IF /\ session_type = "key"
                /\ weekly_intent.present
                /\ GetDefault(weekly_intent.key_sessions_remaining, 2).v <= 0
             THEN select_archetype("support", phase, NoWeeklyIntent)
             ELSE {[name |-> n, category |-> selected.category, session_type |-> session_type] :
                      n \in selected.names}

NoRecommendation == [status |-> "none"]

\* generate_recommendation(state, profile, weekly_intent): the recommendations
\* it can return
generate_recommendation(t) ==
    LET readiness_score == GetDefault(t.score, 70).v
        key_threshold == GetDefault(t.thresholds.key_session, 70).v
        support_threshold == GetDefault(t.thresholds.support_session, 45).v
        phase == IF t.phase = "absent" THEN "base" ELSE t.phase
        gates_pass == stored_gates_pass(t)
        session_type == determine_session_type(readiness_score, gates_pass, key_threshold,
                                               support_threshold)
    IN  {[ status |-> "ok",
           session_type |-> session_type,
           archetype |-> archetype,
           gates_pass |-> gates_pass,
           weekly_context |->
               IF t.weekly_intent.present
               THEN [ present |-> TRUE,
                      key_sessions_target |->
                          GetDefault(t.weekly_intent.key_sessions_target, 2).v,
                      key_sessions_remaining |->
                          GetDefault(t.weekly_intent.key_sessions_remaining, 0).v ]
               ELSE [present |-> FALSE] ] :
           archetype \in select_archetype(session_type, phase, t.weekly_intent)}

\* readiness scores on both sides of the thresholds, or none stored
DayScores == {Absent} \cup {Some(n) : n \in {30, 44, 45, 64, 65, 69, 70, 90}}
\* the thresholds a readiness record stores, or none stored
DayThresholds == {[key_session |-> Absent, support_session |-> Absent],
                  [key_session |-> Some(65), support_session |-> Some(40)]}
DayGates == {Absent, Some(TRUE), Some(FALSE)}
DayPhases == {"base", "build", "peak", "taper", "recovery", "absent", "offseason"}
\* no weekly_intent.json; an intent as generate_weekly_intent writes it
\* (remaining = target); one with the week's key sessions used up; one
\* without the key
WeeklyIntents ==
    {NoWeeklyIntent}
    \cup {[present |-> TRUE, key_sessions_target |-> Some(k), key_sessions_remaining |-> Some(k)] :
             k \in 0..3}
    \cup {[present |-> TRUE, key_sessions_target |-> Some(2), key_sessions_remaining |-> r] :
             r \in {Some(0), Absent}}

SessionInit ==
    /\ today \in [score : DayScores, thresholds : DayThresholds, all_gates_pass : DayGates,
                  phase : DayPhases, weekly_intent : WeeklyIntents]
    /\ recommendation = NoRecommendation

\* recommendation = generate_recommendation(state, profile, weekly_intent)
GenerateRecommendation ==
    /\ recommendation = NoRecommendation
    /\ recommendation' \in generate_recommendation(today)
    /\ UNCHANGED <<today, other_than_session>>

SessionNext == GenerateRecommendation

SessionIdle ==
    /\ today = [score |-> Absent, thresholds |-> [key_session |-> Absent,
                                                  support_session |-> Absent],
                all_gates_pass |-> Absent, phase |-> "absent",
                weekly_intent |-> NoWeeklyIntent]
    /\ recommendation = NoRecommendation

(***************************************************************************)
(* profile_manager.py: the athletes directory.  A directory is known by    *)
(* its path below ATHLETES_DIR and holds a profile.yaml and an             *)
(* athlete_state.json, each as the template has it or updated.             *)
(***************************************************************************)
\* the names the functions are called with; "_template/" is the template's
\* name with a trailing slash
AthleteNames == {"_template", "_template/", "test-athlete", "matti-rowe"}

\* ATHLETES_DIR / athlete_name: pathlib drops a trailing slash
get_athlete_path(athlete_name) ==
    IF athlete_name = "_template/" THEN "_template" ELSE athlete_name

\* the directories without the one at path
Without(dirs, path) == [d \in DOMAIN dirs \ {path} |-> dirs[d]]

\* the directories with the one at path holding content
With(dirs, path, content) ==
    [d \in DOMAIN dirs \cup {path} |-> IF d = path THEN content ELSE dirs[d]]

Outcome(dirs, returned) == [athletes |-> dirs, returned |-> returned]

\* update_athlete(athlete_name, updates)
update_athlete(dirs, athlete_name) ==
    LET path == get_athlete_path(athlete_name)
    IN  IF path \notin DOMAIN dirs THEN Outcome(dirs, "False")
        ELSE Outcome(With(dirs, path, [dirs[path] EXCEPT !.profile = "updated"]), "True")

\* update_state(athlete_name, updates): without the directory the state file
\* cannot be opened for writing
update_athlete_state(dirs, athlete_name) ==
    LET path == get_athlete_path(athlete_name)
    IN  IF path \notin DOMAIN dirs THEN Outcome(dirs, "FileNotFoundError")
        ELSE Outcome(With(dirs, path, [dirs[path] EXCEPT !.state = "updated"]), "True")

\* create_athlete(athlete_name, initial_data): copytree of the template, then
\* update_athlete when initial data are given; copytree raises when the
\* template is gone
create_athlete(dirs, athlete_name, initial_data) ==
    LET path == get_athlete_path(athlete_name)
    IN  IF path \in DOMAIN dirs THEN Outcome(dirs, "False")
        ELSE IF "_template" \notin DOMAIN dirs THEN Outcome(dirs, "FileNotFoundError")
        ELSE LET copied == With(dirs, path, dirs["_template"])
             IN  IF initial_data
                 THEN Outcome(update_athlete(copied, athlete_name).athletes, "True")
                 ELSE Outcome(copied, "True")

\* delete_athlete(athlete_name, confirm)
delete_athlete(dirs, athlete_name, confirm) ==
    LET athlete_path == get_athlete_path(athlete_name)
    IN  IF ~confirm THEN Outcome(dirs, "False")
        ELSE IF athlete_path \notin DOMAIN dirs THEN Outcome(dirs, "False")
        ELSE IF athlete_name = "_template" THEN Outcome(dirs, "False")
        ELSE Outcome(Without(dirs, athlete_path), "True")

TemplateContent == [profile |-> "template", state |-> "template"]

NoCall == [op |-> "none"]

Call(op, athlete_name, confirm, outcome) ==
    [op |-> op, athlete_name |-> athlete_name, confirm |-> confirm,
     returned |-> outcome.returned, before |-> athletes]

\* the template alone, or the template and one athlete created from it
RosterInit ==
    /\ athletes \in {[d \in {"_template"} |-> TemplateContent],
                     [d \in {"_template", "test-athlete"} |-> TemplateContent]}
    /\ call = NoCall

CreateAthlete ==
    \E athlete_name \in AthleteNames, initial_data \in BOOLEAN :
        LET outcome == create_athlete(athletes, athlete_name, initial_data)
        IN  /\ athletes' = outcome.athletes
            /\ call' = Call("create_athlete", athlete_name, FALSE, outcome)
            /\ UNCHANGED other_than_roster

UpdateAthlete ==
    \E athlete_name \in AthleteNames :
        LET outcome == update_athlete(athletes, athlete_name)
        IN  /\ athletes' = outcome.athletes
            /\ call' = Call("update_athlete", athlete_name, FALSE, outcome)
            /\ UNCHANGED other_than_roster

UpdateAthleteState ==
    \E athlete_name \in AthleteNames :
        LET outcome == update_athlete_state(athletes, athlete_name)
        IN  /\ athletes' = outcome.athletes
            /\ call' = Call("update_state", athlete_name, FALSE, outcome)
            /\ UNCHANGED other_than_roster

DeleteAthlete ==
    \E athlete_name \in AthleteNames, confirm \in BOOLEAN :
        LET outcome == delete_athlete(athletes, athlete_name, confirm)
        IN  /\ athletes' = outcome.athletes
            /\ call' = Call("delete_athlete", athlete_name, confirm, outcome)
            /\ UNCHANGED other_than_roster

RosterNext == CreateAthlete \/ UpdateAthlete \/ UpdateAthleteState \/ DeleteAthlete

RosterIdle ==
    /\ athletes = [d \in {"_template"} |-> TemplateContent]
    /\ call = NoCall

(***************************************************************************)
(* check_alerts.py: the alert checks and the alerts section of the state.  *)
(* An alert is known by its type; TSB, ramp rate, percentages and scores   *)
(* are whole numbers.                                                      *)
(***************************************************************************)
THRESHOLDS ==
    [ tsb |-> [warning |-> -20, critical |-> -30],
      ramp_rate |-> [warning |-> 5, critical |-> 7],
      compliance |-> [warning |-> 70, critical |-> 50],
      zone_drift |-> [z1_z2_min |-> 75, z3_max |-> 15, z4_plus_max |-> 20],
      recovery |-> [low_threshold |-> 33],
      hrv |-> [decline_pct |-> 15] ]

check_tsb_alert(m) ==
    IF IsNone(m.tsb) THEN <<>>
    ELSE IF m.tsb.v < THRESHOLDS.tsb.critical THEN <<"tsb_critical">>
    ELSE IF m.tsb.v < THRESHOLDS.tsb.warning THEN <<"tsb_warning">>
    ELSE <<>>

check_ramp_rate_alert(m) ==
    IF IsNone(m.ramp_rate) THEN <<>>
    ELSE IF m.ramp_rate.v > THRESHOLDS.ramp_rate.critical THEN <<"ramp_rate_critical">>
    ELSE IF m.ramp_rate.v > THRESHOLDS.ramp_rate.warning THEN <<"ramp_rate_warning">>
    ELSE <<>>

check_compliance_alert(m) ==
    IF IsNone(m.compliance_7d) THEN <<>>
    ELSE IF m.compliance_7d.v < THRESHOLDS.compliance.critical THEN <<"compliance_critical">>
    ELSE IF m.compliance_7d.v < THRESHOLDS.compliance.warning THEN <<"compliance_warning">>
    ELSE <<>>

check_zone_distribution_alert(m) ==
    IF m.z1_z2_pct = 0 /\ m.z3_pct = 0 /\ m.z4_plus_pct = 0 THEN <<>>
    ELSE (IF m.z1_z2_pct < THRESHOLDS.zone_drift.z1_z2_min /\ m.z1_z2_pct > 0
          THEN <<"zone_drift_low_aerobic">> ELSE <<>>)
         \o (IF m.z3_pct > THRESHOLDS.zone_drift.z3_max
             THEN <<"zone_drift_high_tempo">> ELSE <<>>)
         \o (IF m.z4_plus_pct > THRESHOLDS.zone_drift.z4_plus_max
             THEN <<"zone_drift_high_intensity">> ELSE <<>>)

check_recovery_alert(m) ==
    IF IsNone(m.recovery) THEN <<>>
    ELSE IF m.recovery.v < THRESHOLDS.recovery.low_threshold THEN <<"recovery_low">>
    ELSE <<>>

\* decline_pct = 100 - current / baseline * 100, and 0 for a baseline of 0
check_hrv_alert(m) ==
    IF IsNone(m.hrv_current) \/ IsNone(m.hrv_baseline) THEN <<>>
    ELSE IF /\ m.hrv_baseline.v > 0
            /\ m.hrv_current.v * 100 < (100 - THRESHOLDS.hrv.decline_pct) * m.hrv_baseline.v
         THEN <<"hrv_decline">>
    ELSE <<>>

run_all_checks(m) ==
    check_tsb_alert(m) \o check_ramp_rate_alert(m) \o check_compliance_alert(m)
    \o check_zone_distribution_alert(m) \o check_recovery_alert(m) \o check_hrv_alert(m)

\* alert_type.rsplit("_", 1)[0]: the type without its last word
base_type ==
    [ tsb_critical |-> "tsb", tsb_warning |-> "tsb",
      ramp_rate_critical |-> "ramp_rate", ramp_rate_warning |-> "ramp_rate",
      compliance_critical |-> "compliance", compliance_warning |-> "compliance",
      zone_drift_low_aerobic |-> "zone_drift_low",
      zone_drift_high_tempo |-> "zone_drift_high",
      zone_drift_high_intensity |-> "zone_drift_high",
      recovery_low |-> "recovery",
      hrv_decline |-> "hrv" ]

\* a["type"].startswith(base): among the alert types, those that begin with
\* a base are the ones it is the base of
startswith(alert_type, base) == base_type[alert_type] = base

Types(alert_list) == {alert_list[i] : i \in 1..Len(alert_list)}

\* all_resolved[:10]
FirstTen(alert_list) == SubSeq(alert_list, 1, Min(10, Len(alert_list)))

\* update_alerts(state, new_alerts): (active_alerts, all_resolved)
update_alerts(existing, new) ==
    LET current_active == existing.active
        Matching(alert) == \E a \in Types(new) : startswith(a, base_type[alert])
        Resolved(alert) == ~Matching(alert)
        IsNew(alert) == alert \notin Types(current_active)
    IN  [ active |-> SelectSeq(current_active, Matching) \o SelectSeq(new, IsNew),
          resolved_recently |->
              FirstTen(SelectSeq(current_active, Resolved) \o existing.resolved_recently) ]

\* most alert-check runs made on one state file
MaxRuns == 3

\* an athlete with nothing to report
Quiet ==
    [ tsb |-> Some(0), ramp_rate |-> Some(3), compliance_7d |-> Some(90),
      z1_z2_pct |-> 84, z3_pct |-> 6, z4_plus_pct |-> 10,
      recovery |-> Some(60), hrv_current |-> Some(50), hrv_baseline |-> Some(50) ]

\* the states the checks run on: quiet; TSB low and very low; too much tempo
\* and too much intensity; ramp rate and compliance at warning level; every
\* check at its worst; and a state with no data
MonitoredStates ==
    { Quiet,
      [Quiet EXCEPT !.tsb = Some(-25)],
      [Quiet EXCEPT !.tsb = Some(-35)],
      [Quiet EXCEPT !.z1_z2_pct = 79, !.z3_pct = 16, !.z4_plus_pct = 5],
      [Quiet EXCEPT !.z1_z2_pct = 70, !.z3_pct = 5, !.z4_plus_pct = 25],
      [Quiet EXCEPT !.ramp_rate = Some(6), !.compliance_7d = Some(60)],
      [Quiet EXCEPT !.tsb = Some(-35), !.ramp_rate = Some(8), !.compliance_7d = Some(40),
                    !.recovery = Some(30), !.hrv_current = Some(40)],
      [ tsb |-> Null, ramp_rate |-> Null, compliance_7d |-> Null,
        z1_z2_pct |-> 0, z3_pct |-> 0, z4_plus_pct |-> 0,
        recovery |-> Null, hrv_current |-> Null, hrv_baseline |-> Null ] }

NoRun == [status |-> "none"]

\* a state file without alerts, or with ten alerts resolved earlier
AlertsInit ==
    /\ monitored \in MonitoredStates
    /\ alerts \in {[active |-> <<>>, resolved_recently |-> <<>>],
                   [active |-> <<>>, resolved_recently |-> [i \in 1..10 |-> "recovery_low"]]}
    /\ last_run = NoRun
    /\ runs = 0

\* the state's metrics are rewritten between two runs
Observe ==
    /\ monitored' \in MonitoredStates \ {monitored}
    /\ UNCHANGED <<alerts, last_run, runs, other_than_alert>>

\* main of check_alerts.py: run_all_checks, update_alerts, update_state_alerts
CheckAlerts ==
    /\ runs < MaxRuns
    /\ LET new == run_all_checks(monitored)
       IN  /\ alerts' = update_alerts(alerts, new)
           /\ last_run' = [status |-> "ok", new_alerts |-> new, found |-> alerts]
    /\ runs' = runs + 1
    /\ UNCHANGED <<monitored, other_than_alert>>

AlertsNext == Observe \/ CheckAlerts

AlertsIdle ==
    /\ monitored = Quiet
    /\ alerts = [active |-> <<>>, resolved_recently |-> <<>>]
    /\ last_run = NoRun
    /\ runs = 0

(***************************************************************************)
(* Specifications: one per component, the other components at rest         *)
(***************************************************************************)
ReadinessIdle ==
    /\ state = EmptyState
    /\ config = NoConfig
    /\ edits = 0
    /\ result = NoResult
    /\ pc = "edit"
    /\ previous = NoResult

MetricsIdle ==
    /\ trackpoints = <<>>
    /\ blocks = 0
    /\ ftp = 250
    /\ metrics = NoMetrics

LoadIdle == LoadInit

FitIdle == FitInit

IntentIdle ==
    /\ week = [tsb |-> Absent, readiness_score |-> Absent, phase |-> "absent", ramp_rate |-> 0]
    /\ intent = NoIntent

ProbeIdle ==
    /\ probe = [current |-> Null, baseline |-> Null, weight |-> 100,
                optimal_range |-> DEFAULT_CONFIG.tsb_optimal]
    /\ scored = NoScore

\* readiness: update_state and calculate_readiness
Init ==
    /\ ReadinessInit /\ MetricsIdle /\ LoadIdle /\ FitIdle /\ ProbeIdle /\ IntentIdle
    /\ SessionIdle /\ RosterIdle /\ AlertsIdle
Spec == Init /\ [][ReadinessNext]_vars

\* long efforts through calculate_metrics
EffortInit ==
    /\ ReadinessIdle /\ MetricsInit /\ LoadIdle /\ FitIdle /\ ProbeIdle /\ IntentIdle
    /\ SessionIdle /\ RosterIdle /\ AlertsIdle
SpecEffort == EffortInit /\ [][EffortNext]_vars

\* short efforts around the zone boundaries through calculate_metrics
SpecZones == EffortInit /\ [][ZonesNext]_vars

\* short steady rides with heart rate through calculate_metrics
SpecDrift == EffortInit /\ [][DriftNext]_vars

\* the daily table through engineer_features
TableInit ==
    /\ ReadinessIdle /\ MetricsIdle /\ LoadInit /\ FitIdle /\ ProbeIdle /\ IntentIdle
    /\ SessionIdle /\ RosterIdle /\ AlertsIdle
SpecLoad == TableInit /\ [][LoadNext]_vars

\* Load / Performance tables through the Banister fits
FitTableInit ==
    /\ ReadinessIdle /\ MetricsIdle /\ LoadIdle /\ FitInit /\ ProbeIdle /\ IntentIdle
    /\ SessionIdle /\ RosterIdle /\ AlertsIdle
SpecFit == FitTableInit /\ [][FitNext]_vars

\* single calls of the factor calculations
FactorInit ==
    /\ ReadinessIdle /\ MetricsIdle /\ LoadIdle /\ FitIdle /\ ProbeInit /\ IntentIdle
    /\ SessionIdle /\ RosterIdle /\ AlertsIdle
SpecFactors == FactorInit /\ [][ProbeNext]_vars

\* weekly intents
WeekInit ==
    /\ ReadinessIdle /\ MetricsIdle /\ LoadIdle /\ FitIdle /\ ProbeIdle /\ IntentInit
    /\ SessionIdle /\ RosterIdle /\ AlertsIdle
SpecIntent == WeekInit /\ [][IntentNext]_vars

\* daily session recommendations
DayInit ==
    /\ ReadinessIdle /\ MetricsIdle /\ LoadIdle /\ FitIdle /\ ProbeIdle /\ IntentIdle
    /\ SessionInit /\ RosterIdle /\ AlertsIdle
SpecSession == DayInit /\ [][SessionNext]_vars

\* the athletes directory through profile_manager
RosterStart ==
    /\ ReadinessIdle /\ MetricsIdle /\ LoadIdle /\ FitIdle /\ ProbeIdle /\ IntentIdle
    /\ SessionIdle /\ RosterInit /\ AlertsIdle
SpecRoster == RosterStart /\ [][RosterNext]_vars

\* alert-check runs
AlertStart ==
    /\ ReadinessIdle /\ MetricsIdle /\ LoadIdle /\ FitIdle /\ ProbeIdle /\ IntentIdle
    /\ SessionIdle /\ RosterIdle /\ AlertsInit
SpecAlerts == AlertStart /\ [][AlertsNext]_vars

(***************************************************************************)
(* Properties of calculate_readiness and check_health_gates                *)
(***************************************************************************)
\* a calculate_readiness call has returned a record
Returned == pc = "done" /\ result.status = "ok"

FailedGates == {g \in GateNames : ~result.health_gates[g].gate_pass}

\* the gates named in overall.gates_marginal
MarginalGates ==
    {result.health_gates.overall.gates_marginal[i] :
        i \in 1..Len(result.health_gates.overall.gates_marginal)}

\* C1: whenever a health gate fails, the returned recommendation is "red",
\* session_type_allowed is "recovery" and key_session_eligible is false,
\* whatever the score.
C1_FailedGateForcesRed ==
    (Returned /\ FailedGates # {}) =>
        /\ result.recommendation = "red"
        /\ result.session_type_allowed = "recovery"
        /\ result.key_session_eligible = FALSE

\* a gate has failed although the final score reaches the key-session threshold
C1_Witness ==
    /\ Returned
    /\ FailedGates # {}
    /\ result.final_score >= result.threshold_key_session * 1000
    /\ result.recommendation = "red"

\* C2: the final score of every returned record lies in [0, 100], and so
\* does the rounded score stored in the record.
C2_ScoreInRange ==
    Returned =>
        /\ 0 <= result.final_score /\ result.final_score <= 100000
        /\ 0 <= result.score /\ result.score <= 100

\* every factor reading is missing and a gate has failed: raw score 0, penalty
\* 20, clamped to 0
C2_Witness ==
    /\ Returned
    /\ \A f \in DOMAIN result.factors : result.factors[f].impact = "unknown"
    /\ result.raw_score = 0
    /\ result.gate_penalties = 20
    /\ result.final_score = 0

\* the reading or the baseline/target a factor is scored from is missing
\* (None), or the baseline is zero
MissingData(current, baseline) == IsNone(current) \/ IsNone(baseline) \/ baseline.v = 0

\* C3 (as claimed): every call completes without raising, and a factor whose
\* reading or baseline is missing or whose baseline is zero contributes 0 with
\* impact "unknown".
C3_MissingDataIsUnknown ==
    pc = "done" =>
        /\ result.status = "ok"
        /\ LET in == factor_inputs(state)
               missing ==
                   [ hrv_status |-> MissingData(in.hrv_current, in.hrv_baseline),
                     sleep_status |-> MissingData(in.sleep_last, Some(SleepTarget)),
                     recovery_score |-> MissingData(in.recovery_current, in.recovery_baseline),
                     tsb_status |-> IsNone(in.tsb),
                     rhr_status |-> MissingData(in.rhr_current, in.rhr_baseline) ]
           IN  \A f \in DOMAIN missing :
                   missing[f] => /\ result.factors[f].contribution = 0
                                 /\ result.factors[f].impact = "unknown"

\* C4: the penalty is 20 if a gate fails, else 10 if two or more gates are
\* marginal, else 5 if exactly one is, else 0, and the final score is the raw
\* score minus that penalty, clamped to [0, 100].
C4_GatePenalty ==
    Returned =>
        LET expected == IF FailedGates # {} THEN 20
                        ELSE IF Cardinality(MarginalGates) >= 2 THEN 10
                        ELSE IF Cardinality(MarginalGates) = 1 THEN 5
                        ELSE 0
        IN  /\ result.gate_penalties = expected
            /\ result.final_score = Max(0, Min(100000, result.raw_score - expected * 1000))

\* no gate fails and two gates are marginal: the penalty is 10
C4_Witness ==
    /\ Returned
    /\ FailedGates = {}
    /\ Cardinality(MarginalGates) = 2
    /\ result.gate_penalties = 10
    /\ result.final_score = result.raw_score - 10000

\* C5: with all five gates passing the record is green/key iff the final score
\* is at or above the key threshold, yellow/support iff it is at or above the
\* support threshold and below the key threshold, and red/recovery otherwise.
C5_ThresholdLadder ==
    (Returned /\ FailedGates = {}) =>
        LET key == result.threshold_key_session * 1000
            support == result.threshold_support_session * 1000
            green == /\ result.recommendation = "green"
                     /\ result.session_type_allowed = "key"
                     /\ result.key_session_eligible
            yellow == /\ result.recommendation = "yellow"
                      /\ result.session_type_allowed = "support"
                      /\ ~result.key_session_eligible
            red == /\ result.recommendation = "red"
                   /\ result.session_type_allowed = "recovery"
                   /\ ~result.key_session_eligible
        IN  /\ green <=> result.final_score >= key
            /\ yellow <=> (support <= result.final_score /\ result.final_score < key)
            /\ red <=> (result.final_score < key /\ result.final_score < support)

\* Scenario E: all five gates pass, the score is 72 and the key threshold 65
C5_Witness ==
    /\ Returned
    /\ FailedGates = {}
    /\ result.final_score = 72000
    /\ result.threshold_key_session = 65
    /\ result.recommendation = "green"
    /\ result.session_type_allowed = "key"

\* C6: all_gates_pass is the conjunction of the five gate_pass flags, and
\* intensity_recommendation is recovery_only when a gate fails, low when all
\* pass and two or more gates are marginal, moderate when all pass and
\* exactly one is marginal, full when all pass and none is.
C6_AggregateVerdict ==
    Returned =>
        LET overall == result.health_gates.overall
            n == Cardinality(MarginalGates)
        IN  /\ overall.all_gates_pass = (FailedGates = {})
            /\ overall.intensity_recommendation =
                   IF FailedGates # {} THEN "recovery_only"
                   ELSE IF n >= 2 THEN "low"
                   ELSE IF n = 1 THEN "moderate"
                   ELSE "full"

\* all gates pass and exactly one is marginal
C6_Witness ==
    /\ Returned
    /\ FailedGates = {}
    /\ Cardinality(MarginalGates) = 1
    /\ result.health_gates.overall.intensity_recommendation = "moderate"

\* the percentage the autonomic gate compares: current / baseline * 100, and
\* 100 when the reading or the baseline is None or zero; stated on the state's
\* own numbers, without rounding
PctBelow(current, baseline, p) ==
    IF Truthy(current) /\ Truthy(baseline) THEN current.v * 100 < p * baseline.v ELSE 100 < p
PctAbove(current, baseline, p) ==
    IF Truthy(current) /\ Truthy(baseline) THEN current.v * 100 > p * baseline.v ELSE 100 > p

\* C7: the autonomic gate fails iff HRV as a percent of baseline is below
\* hrv_min_pct_baseline or resting HR as a percent of baseline is above
\* rhr_max_pct_baseline, and it is marginal iff the HRV percent lies in
\* [min, min + 10).
C7_AutonomicGate ==
    Returned =>
        LET th == MergeConfig(config).health_gates
            hc == Get(state.hrv_current)
            hb == Get(state.hrv_baseline)
            rc == Get(state.rhr_current)
            rb == Get(state.rhr_baseline)
        IN  /\ ("autonomic" \in FailedGates) <=>
                   \/ PctBelow(hc, hb, th.hrv_min_pct_baseline)
                   \/ PctAbove(rc, rb, th.rhr_max_pct_baseline)
            /\ ("autonomic" \in MarginalGates) <=>
                   /\ ~PctBelow(hc, hb, th.hrv_min_pct_baseline)
                   /\ PctBelow(hc, hb, th.hrv_min_pct_baseline + 10)

\* HRV sits exactly on the floor (80 percent of baseline): the gate passes
\* and is marginal
C7_Witness ==
    /\ Returned
    /\ Truthy(Get(state.hrv_current)) /\ Truthy(Get(state.hrv_baseline))
    /\ result.health_gates.hrv_pct = MergeConfig(config).health_gates.hrv_min_pct_baseline * 1000
    /\ "autonomic" \notin FailedGates
    /\ "autonomic" \in MarginalGates

(***************************************************************************)
(* Properties of calculate_metrics                                         *)
(***************************************************************************)
\* calculate_metrics has returned a record
Measured == metrics.status = "ok"

\* avg_power ** 4 of the returned record
AvgPower4 == Ratio(BigPow4(metrics.power_sum), BigPow4(metrics.duration_seconds))

\* the arithmetic mean of the rolling 30-sample means of the file's valid
\* power samples, raised to the fourth
MeanOfWindows4 ==
    LET rolling == RollingSums(power_values_of(trackpoints))
    IN  Ratio(BigPow4(SumSeq(rolling)), BigPow4(Window * Len(rolling)))

\* C8 (as claimed): with at least 30 valid power samples the Normalized Power
\* is at least the arithmetic mean of the samples, so VI is never below 1.
C8_NPAtLeastMean ==
    (Measured /\ metrics.duration_seconds >= Window) => RatioGeq(metrics.np4, AvgPower4)

\* C8 (amended): with at least 30 valid power samples the Normalized Power is
\* at least the arithmetic mean of the rolling 30-sample means, and with
\* exactly 30 samples it equals the arithmetic mean of the samples.
C8_NPAtLeastMeanOfWindows ==
    (Measured /\ metrics.duration_seconds >= Window) =>
        /\ RatioGeq(metrics.np4, MeanOfWindows4)
        /\ metrics.duration_seconds = Window => RatioEq(metrics.np4, AvgPower4)

\* more than 30 valid samples, the higher ones at the ends of the file: NP is
\* at least the mean of the rolling means and below the mean of the samples
C8_Witness ==
    /\ Measured
    /\ metrics.duration_seconds > Window
    /\ RatioGeq(metrics.np4, MeanOfWindows4)
    /\ ~RatioGeq(metrics.np4, AvgPower4)

\* the lower edge, in percent of FTP, of each of the seven zones
ZoneFloor == <<0, 55, 76, 91, 106, 121, 151>>

\* power p lies in zone z of the given FTP, stated without division
InZone(p, ftp_, z) ==
    /\ z = 1 \/ p * 100 >= ZoneFloor[z] * ftp_
    /\ z = 7 \/ p * 100 < ZoneFloor[z + 1] * ftp_

\* the positions of the file's valid power samples
ValidSamples ==
    {i \in 1..Len(trackpoints) : trackpoints[i].power.k = "val" /\ trackpoints[i].power.v > 0}

ZoneSeconds ==
    <<metrics.z1_seconds, metrics.z2_seconds, metrics.z3_seconds, metrics.z4_seconds,
      metrics.z5_seconds, metrics.z6_seconds, metrics.z7_seconds>>

\* C9: the seven zone-second counts sum to duration_seconds, which is the
\* number of valid power samples, and each count is the number of valid
\* samples in its bin <55, [55,76), [76,91), [91,106), [106,121), [121,151),
\* >=151 percent of FTP.
C9_ZoneSecondsSumToDuration ==
    Measured =>
        /\ SumSeq(ZoneSeconds) = metrics.duration_seconds
        /\ metrics.duration_seconds = Cardinality(ValidSamples)
        /\ \A z \in 1..7 :
               ZoneSeconds[z] =
                   Cardinality({i \in ValidSamples : InZone(trackpoints[i].power.v, ftp, z)})

\* three trackpoints, one without valid power, one exactly at 55 percent of
\* FTP (zone 2) and one below it (zone 1)
C9_Witness ==
    /\ Measured
    /\ Len(trackpoints) = 3
    /\ metrics.duration_seconds = 2
    /\ \E i \in ValidSamples : trackpoints[i].power.v * 100 = 55 * ftp
    /\ metrics.z1_seconds = 1
    /\ metrics.z2_seconds = 1

(***************************************************************************)
(* Properties of the load columns                                          *)
(***************************************************************************)
\* C10: on every day of every table engineer_features produced, TSB is
\* exactly CTL - ATL.
C10_TsbIsCtlMinusAtl ==
    load.status = "ok" =>
        /\ Len(load.ctl) = Len(tss_series)
        /\ Len(load.atl) = Len(tss_series)
        /\ Len(load.tsb) = Len(tss_series)
        /\ \A i \in 1..Len(tss_series) : load.tsb[i] = load.ctl[i] - load.atl[i]

\* a table with a day of missing TSS and a day on which TSB is not zero
C10_Witness ==
    /\ load.status = "ok"
    /\ \E i \in 1..Len(tss_series) : IsNone(tss_series[i])
    /\ \E i \in 1..Len(tss_series) : load.tsb[i] # 0 /\ load.tsb[i] = load.ctl[i] - load.atl[i]

\* every day of the table carries the same TSS t (a missing TSS counts as 0)
ConstantTss(t) == \A i \in 1..Len(tss_series) : TssOrZero(tss_series[i]) = t

\* C11: fed a constant daily TSS, CTL moves toward it on every successive day
\* and never crosses it, from below when it starts below and from above when
\* it starts above.
C11_CtlMonotoneTowardConstant ==
    load.status = "ctl" =>
        \A t \in {TssOrZero(x) : x \in DailyTSS} :
            ConstantTss(t) =>
                /\ load.ctl[1] = load.start
                /\ load.start <= t * 1000 =>
                       \A i \in 1..(Len(load.ctl) - 1) :
                           load.ctl[i] <= load.ctl[i + 1] /\ load.ctl[i + 1] <= t * 1000
                /\ load.start >= t * 1000 =>
                       \A i \in 1..(Len(load.ctl) - 1) :
                           load.ctl[i] >= load.ctl[i + 1] /\ load.ctl[i + 1] >= t * 1000

\* four days of TSS 60 from a start of 0: CTL has risen on each day and is
\* still below 60
C11_Witness ==
    /\ load.status = "ctl"
    /\ load.start = 0
    /\ Len(tss_series) >= 4
    /\ ConstantTss(60)
    /\ \A i \in 1..(Len(load.ctl) - 1) : load.ctl[i] < load.ctl[i + 1]
    /\ load.ctl[Len(load.ctl)] < 60000

(***************************************************************************)
(* Properties of the Banister fits                                         *)
(***************************************************************************)
\* the fewest observed Performance points each fit accepts
PointFloor(model_type) == IF model_type = "peaks" THEN 15 ELSE 10

\* C12: a fit that ran either returned parameters from at least its floor of
\* Performance points (10, or 15 for the peak-power fit) or failed with an
\* error.
C12_FitFailsHardBelowFloor ==
    fit.status # "pending" =>
        /\ fit.status = "ok" =>
               /\ fit.n = perf_count_of(daily)
               /\ fit.n >= PointFloor(fit.model_type)
        /\ fit.status # "ok" =>
               /\ fit.status = "ValueError"
               /\ perf_count_of(daily) < 15

\* C13: at tau1 = 42 and tau2 = 7 the CTL and ATL the loss function simulates
\* are, day by day, the CTL and ATL columns calculate_ctl and calculate_atl
\* give for the same loads from the same start value.
C13_LossSimulatesTrackerSeries ==
    (fit.status = "ok" /\ fit.tau1 = 42 /\ fit.tau2 = 7) =>
        /\ fit.loss_ctl = calculate_ctl(loads_of(daily), start_value)
        /\ fit.loss_atl = calculate_atl(loads_of(daily), start_value)

\* C14: every fit returns k1_normalized = k1 * 100 and the responder class
\* of k1_normalized: Quick above 0.3, Medium from 0.1 to 0.3, Slow below 0.1.
C14_ResponderFromNormalizedK1 ==
    fit.status = "ok" =>
        /\ fit.k1_normalized = Some(fit.k1 * 100)
        /\ fit.k1 * 100 > 3000 => fit.responder = "Quick Responder"
        /\ (fit.k1 * 100 >= 1000 /\ fit.k1 * 100 <= 3000) => fit.responder = "Medium Responder"
        /\ fit.k1 * 100 < 1000 => fit.responder = "Slow Responder"

(***************************************************************************)
(* Properties of the factor sub-scores.  At weight 1.0 the contribution is *)
(* the sub-score itself.                                                   *)
(***************************************************************************)
\* a call of the named factor calculation that had a reading and a non-zero
\* baseline to score
Scored(factor) ==
    /\ scored.factor = factor
    /\ ~IsNone(probe.current)
    /\ factor # "tsb" => (~IsNone(probe.baseline) /\ probe.baseline.v > 0)

\* the HRV bands: the sub-score for a percent of baseline, both in thousandths
HrvBands(pct) ==
    IF pct >= 100000 THEN 100000
    ELSE IF pct >= 90000 THEN 80000 + (pct - 90000) * 2
    ELSE IF pct >= 80000 THEN 60000 + (pct - 80000) * 2
    ELSE IF pct >= 70000 THEN 40000 + (pct - 70000) * 2
    ELSE Max(0, (pct * 57) \div 100)

\* C15: the HRV sub-score follows the bands 100 / 80+(pct-90)*2 /
\* 60+(pct-80)*2 / 40+(pct-70)*2 / max(0, pct*0.57) of the percent of
\* baseline, and HRV 40 on a baseline of 50 scores exactly 60.0.
C15_HrvSubScoreBands ==
    Scored("hrv") =>
        /\ scored.out.impact # "unknown"
        /\ scored.out.contribution =
               Contribution(HrvBands(Pct(probe.current.v, probe.baseline.v)), probe.weight)
        /\ (probe.current.v = 40 /\ probe.baseline.v = 50 /\ probe.weight = 100) =>
               scored.out.contribution = 60000

\* HRV 40 on a baseline of 50, the factor alone: 60.0
C15_Witness ==
    /\ Scored("hrv")
    /\ probe.current.v = 40
    /\ probe.baseline.v = 50
    /\ probe.weight = 100
    /\ scored.out.contribution = 60000
    /\ scored.out.impact = "slight_negative"

\* the TSB bands for an optimal range r, in thousandths
TsbBands(t, r) ==
    IF t < r.worst_low THEN 0
    ELSE IF t < r.min THEN (100000 * (t - r.worst_low)) \div (r.min - r.worst_low)
    ELSE IF t <= r.max THEN 100000
    ELSE IF t <= r.worst_high THEN 100000 - (30000 * (t - r.max)) \div (r.worst_high - r.max)
    ELSE 70000

\* C16: the TSB sub-score is 100 inside the optimal range, rises linearly
\* from 0 at worst_low to 100 at opt_min, falls linearly from 100 at opt_max
\* to 70 at worst_high, stays 70 above worst_high, and is 0 with impact
\* "severe_negative" below worst_low.
C16_TsbSubScoreBands ==
    Scored("tsb") =>
        LET t == probe.current.v
            r == probe.optimal_range
            score == scored.out.contribution
        IN  /\ score = Contribution(TsbBands(t, r), probe.weight)
            /\ (t < r.worst_low) <=> (scored.out.impact = "severe_negative")
            /\ probe.weight = 100 =>
                   /\ t = r.worst_low => score = 0
                   /\ t = r.min => score = 100000
                   /\ t = r.max => score = 100000
                   /\ t = r.worst_high => score = 70000
                   /\ (t > r.worst_low /\ t < r.min) => (score > 0 /\ score < 100000)
                   /\ (t > r.max /\ t < r.worst_high) => (score > 70000 /\ score < 100000)

\* TSB -35 against the default range, the factor alone: 0, severe_negative
C16_Witness ==
    /\ Scored("tsb")
    /\ probe.current.v = -35
    /\ probe.optimal_range = DEFAULT_CONFIG.tsb_optimal
    /\ probe.weight = 100
    /\ scored.out.contribution = 0
    /\ scored.out.impact = "severe_negative"

\* the straight line through (x0, y0) and (x1, y1) at x, with x in tenths of a
\* baseline b (x = 10 * reading, x0 and x1 multiples of b), y in thousandths
Interpolate(x, x0, y0, x1, y1) == y0 + ((x - x0) * (y1 - y0)) \div (x1 - x0)

\* the recovery tiers: linear between the stated endpoint scores
RecoveryTiers(c, b) ==
    IF c >= b THEN Min(100000, 70000 + (c - b) * 1000)
    ELSE IF c * 10 >= b * 8 THEN Interpolate(c * 10, b * 8, 50000, b * 10, 70000)
    ELSE IF c * 10 >= b * 6 THEN Interpolate(c * 10, b * 6, 30000, b * 8, 50000)
    ELSE IF c * 10 >= b * 4 THEN Interpolate(c * 10, b * 4, 10000, b * 6, 30000)
    ELSE Interpolate(c * 10, 0, 0, b * 4, 10000)

\* C17: the recovery sub-score interpolates linearly between the endpoint
\* scores of each tier: 50-70, 30-50, 10-30 and 0-10 below the baseline (0 at
\* reading 0, approaching 10 at 0.4 of the baseline), 70-100 from it up.
C17_RecoveryTiersInterpolate ==
    Scored("recovery") =>
        scored.out.contribution =
            Contribution(RecoveryTiers(probe.current.v, probe.baseline.v), probe.weight)

(***************************************************************************)
(* Properties of decoupling and of workouts without power                  *)
(***************************************************************************)
\* the length the power and heart-rate arrays are truncated to: equal and even
PairedLength ==
    2 * (Min(Len(power_values_of(trackpoints)), Len(hr_values_of(trackpoints))) \div 2)

\* ((EF1 - EF2) / EF1) * 100 on the two halves of the truncated arrays, in
\* tenths of a percent; null when a half has fewer than 2 samples
DecouplingOfHalves ==
    LET half == PairedLength \div 2
        p1 == SumSeq(SubSeq(power_values_of(trackpoints), 1, half))
        h1 == SumSeq(SubSeq(hr_values_of(trackpoints), 1, half))
        p2 == SumSeq(SubSeq(power_values_of(trackpoints), half + 1, PairedLength))
        h2 == SumSeq(SubSeq(hr_values_of(trackpoints), half + 1, PairedLength))
    IN  IF half < 2 THEN Null ELSE Some(RoundTenths(p1 * h2 - p2 * h1, p1 * h2))

\* C18: decoupling_pct is ((EF1 - EF2) / EF1) * 100 on the power and HR
\* arrays truncated to equal, even length and split at the midpoint, and null
\* only when EF1 or EF2 is undefined.
C18_DecouplingOfHalves ==
    Measured => metrics.decoupling_pct = DecouplingOfHalves

\* C19: a workout without a valid power sample yields the failure outcome and
\* no metrics at all, whatever HR and cadence it carries; a workout with a
\* valid power sample yields a record.
C19_NoPowerNoMetrics ==
    metrics.status # "pending" =>
        /\ ValidSamples = {} => (metrics.status = "None" /\ DOMAIN metrics = {"status", "error"})
        /\ ValidSamples # {} => (metrics.status = "ok" /\ metrics.duration_seconds > 0)

\* a file whose samples all carry heart rate and cadence and a power of 0
C19_Witness ==
    /\ metrics.status = "None"
    /\ Len(trackpoints) >= 2
    /\ \A i \in 1..Len(trackpoints) :
           /\ trackpoints[i].power = Some(0)
           /\ HasHr(trackpoints[i])
           /\ ~IsNone(trackpoints[i].cadence)

(***************************************************************************)
(* Properties of the weekly intent                                         *)
(***************************************************************************)
\* an intent generated for one of the five phases
Planned == intent.status = "ok" /\ intent.phase \in DOMAIN phase_limits

\* C20: key_sessions_target is 2 + fatigue_adj + readiness_adj clamped to
\* [0, phase_limit], with fatigue_adj fresh +1 / normal 0 / tired -1 /
\* exhausted -2, readiness_adj high 0 / moderate 0 / low -1 / very_low -2 and
\* phase_limit base 2 / build 3 / peak 2 / taper 1 / recovery 0.
C20_KeySessionsTarget ==
    Planned =>
        LET f == intent.context.fatigue_status
            r == intent.context.readiness_status
            fatigue_adj == CASE f = "fresh" -> 1 [] f = "normal" -> 0
                             [] f = "tired" -> -1 [] f = "exhausted" -> -2
            readiness_adj == CASE r = "high" -> 0 [] r = "moderate" -> 0
                               [] r = "low" -> -1 [] r = "very_low" -> -2
            phase_limit == CASE intent.phase = "base" -> 2 [] intent.phase = "build" -> 3
                             [] intent.phase = "peak" -> 2 [] intent.phase = "taper" -> 1
                             [] intent.phase = "recovery" -> 0
            sum == 2 + fatigue_adj + readiness_adj
        IN  /\ intent.key_sessions_target =
                   (IF sum < 0 THEN 0 ELSE IF sum > phase_limit THEN phase_limit ELSE sum)
            /\ 0 <= intent.key_sessions_target
            /\ intent.key_sessions_target <= phase_limit

\* an exhausted athlete with very low readiness in a build phase: 2 - 2 - 2
\* is floored at 0
C20_Witness ==
    /\ Planned
    /\ intent.phase = "build"
    /\ intent.context.fatigue_status = "exhausted"
    /\ intent.context.readiness_status = "very_low"
    /\ intent.key_sessions_target = 0

(***************************************************************************)
(* Properties of the configuration, the write-back and the stored record   *)
(***************************************************************************)
\* a weight or a threshold is negative, or the factor weights do not sum to
\* 1.0 (100 percent)
Malformed(cfg) ==
    \/ \E f \in DOMAIN cfg.weights : cfg.weights[f] < 0
    \/ \E t \in DOMAIN cfg.thresholds : cfg.thresholds[t] < 0
    \/ \E g \in DOMAIN cfg.health_gates : cfg.health_gates[g] < 0
    \/ cfg.weights.hrv + cfg.weights.sleep + cfg.weights.recovery + cfg.weights.tsb
       + cfg.weights.rhr # 100

\* C21 (as claimed): a call made with a malformed configuration never
\* returns a readiness record.
C21_MalformedConfigRejected ==
    (pc = "done" /\ Malformed(MergeConfig(config))) => result.status # "ok"

\* C27 (as claimed): every gate named in overall.gates_marginal has gate_pass
\* true; no gate is both failed and marginal.
C27_MarginalGatesPass ==
    Returned => MarginalGates \cap FailedGates = {}

\* validate_business_rules, the key-session eligibility rule: the warning it
\* appends when the stored flag differs from what the stored score, the
\* stored threshold and overall.intensity_allowed give
eligibility_warning(readiness, health_gates) ==
    LET score == readiness.score
        threshold == readiness.threshold_key_session
        eligible == readiness.key_session_eligible
        intensity_allowed == health_gates.overall.intensity_allowed
        expected_eligible == score >= threshold /\ intensity_allowed
    IN  eligible # expected_eligible

\* C24 (as claimed): on a freshly computed record key_session_eligible equals
\* (stored score >= threshold_key_session and intensity_allowed), so the
\* validator reports no key-session-eligibility mismatch.
C24_EligibilityMatchesStoredScore ==
    Returned => ~eligibility_warning(result, result.health_gates)

\* C28 (as claimed): when the HRV factor is scored from a reading below 80
\* percent of the baseline it uses, or the RHR factor from a reading above 110
\* percent of its baseline, the autonomic gate of the same call fails.
C28_GateSeesFactorReadings ==
    Returned =>
        LET in == factor_inputs(state)
            hrv_low == /\ result.factors.hrv_status.impact # "unknown"
                       /\ in.hrv_current.v * 100 < 80 * in.hrv_baseline.v
            rhr_high == /\ result.factors.rhr_status.impact # "unknown"
                        /\ in.rhr_current.v * 100 > 110 * in.rhr_baseline.v
        IN  (hrv_low \/ rhr_high) => "autonomic" \in FailedGates

\* update_athlete_readiness has run at least twice on the state, the second
\* time with no change to the state other than its own write-back
Recomputed == pc = "written" /\ previous.status = "ok"

\* C23: recomputing readiness after the write-back yields the same score,
\* recommendation, gate pass and marginal results and penalty.
C23_WriteBackIdempotent ==
    Recomputed =>
        /\ result.score = previous.score
        /\ result.final_score = previous.final_score
        /\ result.recommendation = previous.recommendation
        /\ result.key_session_eligible = previous.key_session_eligible
        /\ result.session_type_allowed = previous.session_type_allowed
        /\ result.gate_penalties = previous.gate_penalties
        /\ \A g \in GateNames :
               /\ result.health_gates[g].gate_pass = previous.health_gates[g].gate_pass
               /\ result.health_gates[g].marginal = previous.health_gates[g].marginal
        /\ result.health_gates.overall = previous.health_gates.overall

\* readiness recomputed on a state whose stored gate inputs decide the
\* verdict: a declining weight trend makes the energy gate marginal both times
C23_Witness ==
    /\ Recomputed
    /\ state.weight_trend = "declining"
    /\ previous.health_gates.energy.marginal
    /\ result.health_gates.energy.marginal
    /\ result.gate_penalties > 0

(***************************************************************************)
(* Properties of the weekly intent's constraints                           *)
(***************************************************************************)
\* the constraints list of the generated intent, as a set
Constraints == {intent.constraints[i] : i \in 1..Len(intent.constraints)}

\* C26 (as claimed): an intent that carries "No key sessions until TSB > -15"
\* or "All sessions recovery until readiness > 45" has key_sessions_target 0,
\* and one that carries "Max 1 key session early in week" has a target of at
\* most 1.
C26_ConstraintsBoundTarget ==
    Planned =>
        /\ "No key sessions until TSB > -15" \in Constraints => intent.key_sessions_target = 0
        /\ "All sessions recovery until readiness > 45" \in Constraints =>
               intent.key_sessions_target = 0
        /\ "Max 1 key session early in week" \in Constraints => intent.key_sessions_target <= 1

(***************************************************************************)
(* Properties of the sleep sub-score                                       *)
(***************************************************************************)
\* calculate_sleep_contribution has scored a night of sleep
SleepScored == scored.factor = "sleep" /\ ~IsNone(probe.current)

\* the nights no longer than the scored one
ShorterNights == {n \in SleepReadings : ~IsNone(n) /\ n.v <= probe.current.v}

\* what a night would contribute with the scored call's average, target and weight
SleepContribution(night) ==
    calculate_sleep_contribution(night, probe.baseline, probe.target, probe.weight).contribution

\* the night is below 75 percent of the target
BelowThreeQuarters(night) == night.v * 100 < 75 * probe.target

\* C30 (as claimed): for a fixed target, 7-day average and weight, a longer
\* night never contributes less than a shorter one.
C30_SleepMonotone ==
    SleepScored =>
        \A shorter \in ShorterNights : SleepContribution(shorter) <= scored.out.contribution

\* C30 (amended): a longer night never contributes less than a shorter one
\* on the same side of 75 percent of the target; across that boundary the
\* sub-score falls by less than 0.25 points (times the weight).
C30_SleepMonotoneBesidesBoundary ==
    SleepScored =>
        \A shorter \in ShorterNights :
            /\ BelowThreeQuarters(shorter) = BelowThreeQuarters(probe.current) =>
                   SleepContribution(shorter) <= scored.out.contribution
            /\ SleepContribution(shorter) - scored.out.contribution
                   <= Contribution(250, probe.weight)

\* 6.00 h on a target of 8 h, the factor alone, scores 50.0, and 5.98 h would
\* have scored more
C30_Witness ==
    /\ SleepScored
    /\ probe.current.v = 600 /\ probe.target = 800 /\ probe.weight = 100
    /\ scored.out.contribution = 50000
    /\ SleepContribution(Some(598)) > scored.out.contribution

(***************************************************************************)
(* Properties of the athletes directory, the session recommendation and    *)
(* the alerts                                                              *)
(***************************************************************************)
\* C22 (as claimed): delete_athlete removes the athlete's directory, and only
\* it, when confirm is True, the athlete exists and its name is not
\* "_template"; otherwise it returns False and leaves every directory as it
\* was; and the template exists after every sequence of calls.
C22_DeleteSparesTemplate ==
    /\ "_template" \in DOMAIN athletes
    /\ call.op = "delete_athlete" =>
           LET path == get_athlete_path(call.athlete_name)
           IN  IF call.confirm /\ path \in DOMAIN call.before /\ call.athlete_name # "_template"
               THEN call.returned = "True" /\ athletes = Without(call.before, path)
               ELSE call.returned = "False" /\ athletes = call.before

\* a session has been recommended
Recommended == recommendation.status = "ok"

\* the weekly intent's key sessions are used up
BudgetSpent ==
    /\ today.weekly_intent.present
    /\ ~IsNone(today.weekly_intent.key_sessions_remaining)
    /\ today.weekly_intent.key_sessions_remaining.v <= 0

\* C25 (as claimed): with key_sessions_remaining at or below 0 neither the
\* recommendation's session_type nor the selected archetype's is "key".
C25_NoKeyOnceBudgetSpent ==
    (Recommended /\ BudgetSpent) =>
        /\ recommendation.session_type # "key"
        /\ recommendation.archetype.session_type # "key"

\* an alert-check run has been made
Checked == last_run.status = "ok"

\* C29 (as claimed): after a run the active list holds exactly one alert per
\* triggered alert type and nothing else, and the alerts that were active
\* and whose own type is not triggered are at the front of resolved_recently.
C29_ActiveIsTriggered ==
    Checked =>
        LET Untriggered(alert) == alert \notin Types(last_run.new_alerts)
            resolved == SelectSeq(last_run.found.active, Untriggered)
        IN  /\ Types(alerts.active) = Types(last_run.new_alerts)
            /\ Cardinality(Types(alerts.active)) = Len(alerts.active)
            /\ Len(alerts.resolved_recently) >= Min(10, Len(resolved))
            /\ SubSeq(alerts.resolved_recently, 1, Min(10, Len(resolved)))
                   = SubSeq(resolved, 1, Min(10, Len(resolved)))

=============================================================================
